---- MODULE Spec2Model ----
(***************************************************************************)
(* Task-manager backend: users, tasks, groups and the per-user task        *)
(* ledger, with the HTTP handlers of routes/tasks.js, routes/groups.js,    *)
(* routes/userTasks.js, routes/users.js and routes/auth.js as actions over *)
(* the document store.  Every handler but login and seed-admin runs behind *)
(* `authenticate`: its action is enabled for an existing, active user, and *)
(* any other credential is answered by the middleware.  A handler is one   *)
(* atomic action, except the creation of a user, which the accounts        *)
(* scenario splits at its awaits.                                          *)
(***************************************************************************)
EXTENDS Integers, Sequences, FiniteSets, TLC

VARIABLES users, tasks, groups, ledger, counter, procs, now, last, tokens

vars == <<users, tasks, groups, ledger, counter, procs, now, last, tokens>>

(***************************************************************************)
(* Bounds of the model: the readings the clock can give, the length of a   *)
(* memberIds list and the values a sequence counter can reach.             *)
(***************************************************************************)
MaxClock == 3
MaxMemberIds == 2
MaxSeq == 4

(***************************************************************************)
(* Identifiers.  A document id is a positive integer; NoId is null or an   *)
(* absent body field, GhostId a well-formed ObjectId that names no         *)
(* document, BadId a string that is not a valid ObjectId.                  *)
(***************************************************************************)
NoId == 0
GhostId == 99
BadId == -1

UserIds == {1, 2, 3}
TaskIds == {1}
GroupIds == {1}

\* bcrypt.hash(password): the stored credential.
Hash(password) == [bcrypt |-> password]

NoUser ==
  [role |-> "", isActive |-> FALSE, exists |-> FALSE, uid |-> 0, email |-> "",
   password |-> Hash("")]
NoComment == "undefined"
NoStatus == "undefined"

\* A task id that was never issued, and one whose document was deleted.
NoTask ==
  [doc |-> "none", tid |-> 0, title |-> "", priority |-> "", createdBy |-> NoId,
   comments |-> <<>>, attachments |-> <<>>,
   assignedTo |-> [user |-> NoId, group |-> NoId],
   status |-> [status |-> NoStatus, updatedAt |-> 0, updatedBy |-> NoId],
   statusHistory |-> <<>>]
GoneTask == [NoTask EXCEPT !.doc = "gone"]

NoGroup ==
  [doc |-> "none", gid |-> 0, lead |-> NoId, members |-> <<>>, tasks |-> <<>>,
   createdBy |-> NoId, isActive |-> FALSE]
GoneGroup == [NoGroup EXCEPT !.doc = "gone"]

\* No UserTasks document for the user.
NoLedger == [doc |-> "none", assignedTasks |-> <<>>]
\* utils/roles.js
ROLES == [ADMIN |-> "admin", MANAGER |-> "manager", EMPLOYEE |-> "employee"]
RoleValues == {ROLES.ADMIN, ROLES.MANAGER, ROLES.EMPLOYEE}
STATUSES == <<"Todo", "InProgress", "Completed", "Closed">>
PRIORITIES == <<"Low", "Medium", "High">>

SeqRange(s) == {s[i] : i \in 1..Len(s)}

\* String(r || '').trim().toLowerCase(), tabulated for the role strings the
\* model passes around: stored roles and raw request values.
normalizeRole(r) ==
  CASE r \in {"admin", "ADMIN", " Admin "} -> "admin"
    [] r \in {"manager", "MANAGER", "Manager "} -> "manager"
    [] r \in {"employee", "EMPLOYEE", " employee"} -> "employee"
    [] r = "boss" -> "boss"
    [] OTHER -> ""

ASSIGN_PERMISSIONS ==
  [admin |-> {"manager", "employee"}, manager |-> {"employee"}, employee |-> {}]

\* ASSIGN_PERMISSIONS[a]?.includes(b): undefined (falsy) for an unknown actor role.
canAssign(actorRole, assigneeRole) ==
  LET a == normalizeRole(actorRole)
      b == normalizeRole(assigneeRole)
  IN  a \in DOMAIN ASSIGN_PERMISSIONS /\ b \in ASSIGN_PERMISSIONS[a]

\* mongoose.isValidObjectId
isValidObjectId(id) == id # BadId

(***************************************************************************)
(* Store lookups.                                                          *)
(***************************************************************************)
\* A variant of UserFindById that reports every stored user as active; C6
\* fails of it.
UserFindByIdAsActive(id) ==
  IF id \in UserIds /\ users[id].exists THEN [users[id] EXCEPT !.isActive = TRUE] ELSE NoUser

UserFindById(id) == IF id \in UserIds /\ users[id].exists THEN users[id] ELSE NoUser

TaskExists(id) == id \in TaskIds /\ tasks[id].doc = "live"

GroupExists(id) == id \in GroupIds /\ groups[id].doc = "live"

\* The role a token carries that was never issued.
NoToken == ""

\* A variant of ActorRole that reads the role embedded in the token when it
\* was issued; C27 fails of it.
ActorRoleOfToken(a) == tokens[a]

\* A variant of authenticate that admits a stored user whether active or
\* not; C11 fails of it.
authenticateStoredUser(a) == a \in UserIds /\ users[a].exists

\* middleware/auth.js: the token resolves to a stored, active user; the
\* actor's role is the stored role, normalized.
authenticate(a) == a \in UserIds /\ users[a].exists /\ users[a].isActive

ActorRole(a) == normalizeRole(users[a].role)

\* middleware/permit.js: the actor's role is in the operation's allowed set.
permit(a, allowed) == ActorRole(a) \in allowed

(***************************************************************************)
(* The response of a handler: HTTP status code and message; and the record *)
(* of the last request: operation, actor, response, and the ids of the     *)
(* documents a read returned.                                              *)
(***************************************************************************)
Reply(code, message) == [code |-> code, message |-> message]

Resp(op, actor, reply, seen) ==
  [op |-> op, actor |-> actor, code |-> reply.code, message |-> reply.message, seen |-> seen]

\* What a request presents as its credential: the id of the user a verified
\* token names (GhostId: a user that was never stored), NoId for no bearer
\* token, BadId for a token jwt.verify throws on.
Credentials == UserIds \cup {NoId, BadId, GhostId}

\* The response of every route but login: it is recorded, and no token is
\* issued.
Answer(op, actor, reply, seen) ==
  /\ last' = Resp(op, actor, reply, seen)
  /\ UNCHANGED tokens

\* The answer of the middleware when it does not call next().
authenticateReply(c) ==
  IF c = NoId THEN Reply(401, "No token provided")
  ELSE IF c = BadId THEN Reply(401, "Unauthorized")
  ELSE Reply(401, "Invalid token")

(***************************************************************************)
(* Initial state: the admin has been seeded and has registered a manager   *)
(* and an employee, and each of them has logged in; no task, group or      *)
(* ledger exists yet.                                                      *)
(***************************************************************************)
SeedAdminEmail == "admin@example.com"

SeedAdminPassword == "Admin@123"

InitUsers ==
  [u \in UserIds |->
     [role |-> IF u = 1 THEN ROLES.ADMIN ELSE IF u = 2 THEN ROLES.MANAGER ELSE ROLES.EMPLOYEE,
      isActive |-> TRUE, exists |-> TRUE, uid |-> u,
      email |-> IF u = 1 THEN SeedAdminEmail ELSE IF u = 2 THEN "manager@example.com"
                ELSE "employee@example.com",
      password |-> Hash(IF u = 1 THEN SeedAdminPassword ELSE "Secret@1")]]

\* models/Counter.js: one document per sequence name; no document yet reads
\* as 0, the value $inc starts from.
SeqNames == {"user", "task", "group"}

\* The requests in flight in the accounts scenario, and one that is not.
Procs == {1, 2}

IdleProc == [pc |-> "idle", op |-> "", actor |-> NoId, email |-> "", role |-> "", uid |-> 0]

Init ==
  /\ users = InitUsers
  /\ tasks = [t \in TaskIds |-> NoTask]
  /\ groups = [g \in GroupIds |-> NoGroup]
  /\ ledger = [u \in UserIds |-> NoLedger]
  /\ counter = [n \in SeqNames |-> IF n = "user" THEN Cardinality(UserIds) ELSE 0]
  /\ procs = [p \in Procs |-> IdleProc]
  /\ now = 0
  /\ last = Resp("init", NoId, Reply(0, ""), {})
  /\ tokens = [u \in UserIds |-> InitUsers[u].role]

(***************************************************************************)
(* models/Task.js: the document methods.                                   *)
(***************************************************************************)
\* getNextSeq(name): findByIdAndUpdate with $inc and upsert is one atomic
\* operation of the store: the value it returns, and the counters it leaves.
getNextSeq(name) == counter[name] + 1

\* A variant of Drawn that leaves the counter as it was; C15 fails of it.
DrawnNothing(name) == counter

Drawn(name) == [counter EXCEPT ![name] = @ + 1]

\* The counter stops at MaxSeq.
CanDraw(name) == counter[name] < MaxSeq

\* pre('save') of a new task: the sequential id.
TaskPreSave(t) == IF t.tid = 0 THEN [t EXCEPT !.tid = getNextSeq("task")] ELSE t

\* pre('save') of a new group: the sequential id.
GroupIdPreSave(g) == IF g.gid = 0 THEN [g EXCEPT !.gid = getNextSeq("group")] ELSE g

\* POST /tasks keeps at most this many of the attachments sent.
AttachmentCap == 10

\* The attachments field of a request body: not sent, or an array; only the
\* length of the array matters, so every attachment is the same object.
NoAttachments == [sent |-> FALSE, list |-> <<>>]

SentAttachments(n) == [sent |-> TRUE, list |-> [i \in 1..n |-> "attachment"]]

\* Array.prototype.slice(0, n)
slice(list, n) == SubSeq(list, 1, IF Len(list) < n THEN Len(list) ELSE n)

\* Task.create of POST /tasks; the creator is also the first status updater.
NewTask(title, priority, creator, uid, gid, status, at, attachments) ==
  [doc |-> "live", title |-> title, priority |-> priority, createdBy |-> creator,
   assignedTo |-> [user |-> uid, group |-> gid],
   status |-> [status |-> status, updatedAt |-> at, updatedBy |-> creator],
   statusHistory |-> <<>>, tid |-> 0, comments |-> <<>>,
   attachments |-> IF attachments.sent THEN slice(attachments.list, AttachmentCap) ELSE <<>>]

\* A variant of updateStatus that pushes the new status, not the prior
\* one, to the history; C2 fails of it.
updateStatusRecordingNew(t, newStatus, updatedBy, comment, at) ==
  IF t.status.status # newStatus
  THEN [t EXCEPT
          !.statusHistory = Append(@, [status |-> newStatus, updatedAt |-> at,
                                       updatedBy |-> updatedBy, comment |-> comment]),
          !.status = [status |-> newStatus, updatedAt |-> at, updatedBy |-> updatedBy]]
  ELSE t

\* A variant of updateStatus without the test of the live status; C3 fails
\* of it.
updateStatusUnguarded(t, newStatus, updatedBy, comment, at) ==
  [t EXCEPT
     !.statusHistory = Append(@, [status |-> t.status.status,
                                  updatedAt |-> t.status.updatedAt,
                                  updatedBy |-> t.status.updatedBy,
                                  comment |-> comment]),
     !.status = [status |-> newStatus, updatedAt |-> at, updatedBy |-> updatedBy]]

updateStatus(t, newStatus, updatedBy, comment, at) ==
  IF t.status.status # newStatus
  THEN [t EXCEPT
          !.statusHistory = Append(@, [status |-> t.status.status,
                                       updatedAt |-> t.status.updatedAt,
                                       updatedBy |-> t.status.updatedBy,
                                       comment |-> comment]),
          !.status = [status |-> newStatus, updatedAt |-> at, updatedBy |-> updatedBy]]
  ELSE t

assignUser(t, userId) == [t EXCEPT !.assignedTo = [user |-> userId, group |-> NoId]]

\* A variant of assignGroup that sets the group and keeps the user; C1
\* fails of it.
assignGroupKeepingUser(t, groupId) == [t EXCEPT !.assignedTo.group = groupId]

assignGroup(t, groupId) == [t EXCEPT !.assignedTo = [user |-> NoId, group |-> groupId]]

removeAssignment(t) == [t EXCEPT !.assignedTo = [user |-> NoId, group |-> NoId]]

isUserAssigned(t, userId) == t.assignedTo.user # NoId /\ t.assignedTo.user = userId


(***************************************************************************)
(* Request inputs.                                                         *)
(***************************************************************************)
Absent == "absent"
\* The ids a request can name: an id of the collection names no document
\* before the document is created and after it is deleted.
UserRefs == UserIds \cup {NoId, GhostId}
GroupRefs == GroupIds \cup {NoId}

\* _id of the next document of a collection: ids are issued in order and
\* never reused.
NextTaskId == CHOOSE t \in TaskIds : tasks[t] = NoTask /\ \A s \in TaskIds : s < t => tasks[s] # NoTask

NextGroupId == CHOOSE g \in GroupIds : groups[g] = NoGroup /\ \A h \in GroupIds : h < g => groups[h] # NoGroup

\* new Date(): the clock reading of a write, which moves the clock on.
CanStamp == now < MaxClock

(***************************************************************************)
(* POST /tasks                                                             *)
(***************************************************************************)
CreateTaskReply(a, title, priority, uid, gid, status) ==
  LET st == IF status = Absent THEN "Todo" ELSE status
  IN  IF ActorRole(a) \notin {ROLES.ADMIN, ROLES.MANAGER}
      THEN Reply(403, "Only admin/manager can create tasks")
      ELSE IF title = Absent THEN Reply(400, "title and description are required")
      ELSE IF uid # NoId /\ gid # NoId
      THEN Reply(400, "Task can be assigned to either a user OR a group, not both")
      ELSE IF priority # Absent /\ priority \notin SeqRange(PRIORITIES)
      THEN Reply(400, "priority must be one of Low, Medium, High")
      ELSE IF st \notin SeqRange(STATUSES)
      THEN Reply(400, "status must be one of Todo, InProgress, Completed, Closed")
      ELSE IF uid # NoId /\ ~isValidObjectId(uid) THEN Reply(400, "Invalid user ID")
      ELSE IF uid # NoId /\ (~UserFindById(uid).exists \/ ~UserFindById(uid).isActive)
      THEN Reply(400, "Invalid or inactive user")
      ELSE IF gid # NoId /\ ~isValidObjectId(gid) THEN Reply(400, "Invalid group ID")
      ELSE IF gid # NoId /\ (~GroupExists(gid) \/ ~groups[gid].isActive)
      THEN Reply(400, "Invalid or inactive group")
      ELSE Reply(201, "")

\* files: the uploaded parts of the multipart body ('file', 'voice').  multer
\* stores them on disk; the handler passes their URLs to Task.create as file
\* and voice, which are no paths of taskSchema and are dropped by the cast,
\* so the stored document does not depend on them.
CreateTask(a, title, priority, uid, gid, status, files, attachments) ==
  LET reply == CreateTaskReply(a, title, priority, uid, gid, status)
  IN  /\ authenticate(a)
      /\ IF reply.code = 201
         THEN /\ \E t \in TaskIds : tasks[t] = NoTask
              /\ CanStamp
              /\ CanDraw("task")
              /\ tasks' = [tasks EXCEPT ![NextTaskId] =
                             TaskPreSave(
                               NewTask(title, IF priority = Absent THEN "Medium" ELSE priority,
                                       a, uid, gid,
                                       IF status = Absent THEN "Todo" ELSE status, now, attachments))]
              /\ counter' = Drawn("task")
              /\ now' = now + 1
         ELSE UNCHANGED <<tasks, counter, now>>
      /\ Answer("createTask", a, reply, {})
      /\ UNCHANGED <<users, groups, ledger, procs>>

(***************************************************************************)
(* routes/tasks.js: restrictQueryByRole builds the scoping filter; the     *)
(* filter is a disjunction of the clauses that are present.                *)
(***************************************************************************)
GroupsLedOrJoined(a) ==
  {g \in GroupIds : GroupExists(g) /\ (groups[g].lead = a \/ a \in SeqRange(groups[g].members))}

GroupsJoined(a) ==
  {g \in GroupIds : GroupExists(g) /\ a \in SeqRange(groups[g].members)}

restrictQueryByRole(a) ==
  LET role == ActorRole(a)
  IN  IF role = ROLES.ADMIN
      THEN [all |-> TRUE, createdBy |-> NoId, user |-> NoId, groups |-> {}]
      ELSE IF role = ROLES.MANAGER
      THEN [all |-> FALSE, createdBy |-> a, user |-> a, groups |-> GroupsLedOrJoined(a)]
      ELSE [all |-> FALSE, createdBy |-> NoId, user |-> a, groups |-> GroupsJoined(a)]

\* A variant of MatchesFilter without the clause of the assigned group; C4
\* fails of it.
MatchesFilterWithoutGroups(f, t) ==
  \/ f.all
  \/ f.createdBy # NoId /\ t.createdBy = f.createdBy
  \/ f.user # NoId /\ t.assignedTo.user = f.user

\* Task.find(filter) / Task.findOne({...filter, _id}) on one document.
MatchesFilter(f, t) ==
  \/ f.all
  \/ f.createdBy # NoId /\ t.createdBy = f.createdBy
  \/ f.user # NoId /\ t.assignedTo.user = f.user
  \/ t.assignedTo.group \in f.groups

TaskFind(f) == {t \in TaskIds : TaskExists(t) /\ MatchesFilter(f, tasks[t])}

(***************************************************************************)
(* GET /tasks and GET /tasks/:id                                           *)
(***************************************************************************)
ListTasks(a) ==
  /\ authenticate(a)
  /\ Answer("listTasks", a, Reply(200, ""), TaskFind(restrictQueryByRole(a)))
  /\ UNCHANGED <<users, tasks, groups, ledger, now, counter, procs>>

GetTaskReply(a, id) ==
  IF id \in TaskFind(restrictQueryByRole(a)) THEN Reply(200, "") ELSE Reply(404, "Task not found")

GetTask(a, id) ==
  /\ authenticate(a)
  /\ Answer("getTask", a, GetTaskReply(a, id),
                  IF GetTaskReply(a, id).code = 200 THEN {id} ELSE {})
  /\ UNCHANGED <<users, tasks, groups, ledger, now, counter, procs>>

(***************************************************************************)
(* PATCH /tasks/:id                                                        *)
(***************************************************************************)
\* Admin, Manager or the creator may use the endpoint.
MayModifyTask(a, t) ==
  \/ ActorRole(a) = ROLES.ADMIN
  \/ ActorRole(a) = ROLES.MANAGER
  \/ t.createdBy = a

\* Object.assign(task, updates); task.save() runs the schema validators.
FieldUpdates(t, title, priority, attachments) ==
  [t EXCEPT !.title = IF title = Absent THEN @ ELSE title,
            !.priority = IF priority = Absent THEN @ ELSE priority,
            !.attachments = IF attachments.sent THEN attachments.list ELSE @]

FieldsValid(t) == t.title # "" /\ t.priority \in SeqRange(PRIORITIES)

UpdateTaskReply(a, id, title, priority, hasAssignee, assigneeId, attachments) ==
  IF ~TaskExists(id) THEN Reply(404, "Task not found")
  ELSE IF ~MayModifyTask(a, tasks[id]) THEN Reply(403, "Not allowed to modify this task")
  ELSE IF (title # Absent \/ priority # Absent)
          /\ ~FieldsValid(FieldUpdates(tasks[id], title, priority, attachments))
  THEN Reply(500, "Update task error")
  ELSE IF hasAssignee /\ assigneeId # NoId /\ ~isValidObjectId(assigneeId)
  THEN Reply(400, "Invalid user ID")
  ELSE IF hasAssignee /\ assigneeId # NoId
          /\ (~UserFindById(assigneeId).exists \/ ~UserFindById(assigneeId).isActive)
  THEN Reply(400, "Invalid or inactive user")
  ELSE IF title = Absent /\ priority = Absent /\ ~attachments.sent /\ ~hasAssignee
  THEN Reply(400, "No allowed fields to update")
  ELSE Reply(200, "")

\* The document as stored when the handler returns: the field updates are
\* saved before assigneeId is looked at.
UpdateTaskResult(a, id, title, priority, hasAssignee, assigneeId, attachments) ==
  LET code == UpdateTaskReply(a, id, title, priority, hasAssignee, assigneeId, attachments).code
      t1 == FieldUpdates(tasks[id], title, priority, attachments)
  IN  IF code \in {404, 403, 500} THEN tasks[id]
      ELSE IF code = 400 THEN t1
      ELSE IF ~hasAssignee THEN t1
      ELSE IF assigneeId = NoId THEN removeAssignment(t1)
      ELSE assignUser(t1, assigneeId)

UpdateTask(a, id, title, priority, hasAssignee, assigneeId, attachments) ==
  /\ authenticate(a)
  /\ tasks' = IF TaskExists(id)
              THEN [tasks EXCEPT ![id] = UpdateTaskResult(a, id, title, priority, hasAssignee, assigneeId, attachments)]
              ELSE tasks
  /\ Answer("updateTask", a, UpdateTaskReply(a, id, title, priority, hasAssignee, assigneeId, attachments), {})
  /\ UNCHANGED <<users, groups, ledger, now, counter, procs>>

(***************************************************************************)
(* PATCH /tasks/:id/status                                                 *)
(***************************************************************************)
MayUpdateStatus(a, t) ==
  \/ ActorRole(a) = ROLES.ADMIN
  \/ ActorRole(a) = ROLES.MANAGER
  \/ t.createdBy = a
  \/ isUserAssigned(t, a)

UpdateTaskStatusReply(a, id, status) ==
  IF status \notin SeqRange(STATUSES) THEN Reply(400, "Status is required and must be one of")
  ELSE IF ~TaskExists(id) THEN Reply(404, "Task not found")
  ELSE IF ~MayUpdateStatus(a, tasks[id])
  THEN Reply(403, "You can only update status for tasks assigned to you or that you created")
  ELSE Reply(200, "")

UpdateTaskStatus(a, id, status, comment) ==
  LET reply == UpdateTaskStatusReply(a, id, status)
  IN  /\ authenticate(a)
      /\ IF reply.code = 200 /\ tasks[id].status.status # status
         THEN /\ CanStamp
              /\ tasks' = [tasks EXCEPT ![id] = updateStatus(@, status, a, comment, now)]
              /\ now' = now + 1
         ELSE UNCHANGED <<tasks, now>>
      /\ Answer("updateTaskStatus", a, reply, {})
      /\ UNCHANGED <<users, groups, ledger, counter, procs>>

(***************************************************************************)
(* PATCH /tasks/:id/assign and PATCH /tasks/:id/unassign                   *)
(***************************************************************************)
AssignTaskReply(a, id, userId, groupId) ==
  IF ActorRole(a) \notin {ROLES.ADMIN, ROLES.MANAGER}
  THEN Reply(403, "Only admin/manager can assign tasks")
  ELSE IF userId # NoId /\ groupId # NoId
  THEN Reply(400, "Task can be assigned to either a user OR a group, not both")
  ELSE IF userId = NoId /\ groupId = NoId
  THEN Reply(400, "Either userId or groupId must be provided")
  ELSE IF ~TaskExists(id) THEN Reply(404, "Task not found")
  ELSE IF userId # NoId /\ ~isValidObjectId(userId) THEN Reply(400, "Invalid user ID")
  ELSE IF userId # NoId /\ (~UserFindById(userId).exists \/ ~UserFindById(userId).isActive)
  THEN Reply(400, "Invalid or inactive user")
  ELSE IF groupId # NoId /\ ~isValidObjectId(groupId) THEN Reply(400, "Invalid group ID")
  ELSE IF groupId # NoId /\ (~GroupExists(groupId) \/ ~groups[groupId].isActive)
  THEN Reply(400, "Invalid or inactive group")
  ELSE Reply(200, "")

AssignTask(a, id, userId, groupId) ==
  LET reply == AssignTaskReply(a, id, userId, groupId)
  IN  /\ authenticate(a)
      /\ tasks' = IF reply.code = 200
                  THEN [tasks EXCEPT ![id] = IF userId # NoId THEN assignUser(@, userId)
                                                               ELSE assignGroup(@, groupId)]
                  ELSE tasks
      /\ Answer("assignTask", a, reply, {})
      /\ UNCHANGED <<users, groups, ledger, now, counter, procs>>

UnassignTaskReply(a, id) ==
  IF ActorRole(a) \notin {ROLES.ADMIN, ROLES.MANAGER}
  THEN Reply(403, "Only admin/manager can remove task assignments")
  ELSE IF ~TaskExists(id) THEN Reply(404, "Task not found")
  ELSE Reply(200, "")

UnassignTask(a, id) ==
  LET reply == UnassignTaskReply(a, id)
  IN  /\ authenticate(a)
      /\ tasks' = IF reply.code = 200 THEN [tasks EXCEPT ![id] = removeAssignment(@)] ELSE tasks
      /\ Answer("unassignTask", a, reply, {})
      /\ UNCHANGED <<users, groups, ledger, now, counter, procs>>

(***************************************************************************)
(* DELETE /tasks/:id                                                       *)
(***************************************************************************)
DeleteTaskReply(a, id) ==
  IF ActorRole(a) # ROLES.ADMIN THEN Reply(403, "Only admin can delete tasks")
  ELSE IF ~TaskExists(id) THEN Reply(404, "Task not found")
  ELSE Reply(200, "Task deleted")

DeleteTask(a, id) ==
  LET reply == DeleteTaskReply(a, id)
  IN  /\ authenticate(a)
      /\ tasks' = IF reply.code = 200 THEN [tasks EXCEPT ![id] = GoneTask] ELSE tasks
      /\ Answer("deleteTask", a, reply, {})
      /\ UNCHANGED <<users, groups, ledger, now, counter, procs>>

(***************************************************************************)
(* POST /tasks/reopen/:taskId: any authenticated actor; the live status is *)
(* overwritten in place and a 'Todo' entry is pushed to the history.       *)
(***************************************************************************)
ReopenTaskReply(a, id) ==
  IF ~isValidObjectId(id) THEN Reply(400, "Invalid task ID")
  ELSE IF ~TaskExists(id) THEN Reply(404, "Task not found")
  ELSE Reply(200, "Task reopened and set to TODO")

ReopenedTask(t, a, at) ==
  [t EXCEPT !.status.status = "Todo",
            !.statusHistory = Append(@, [status |-> "Todo", updatedAt |-> at,
                                         updatedBy |-> a, comment |-> "Task reopened"])]

ReopenTask(a, id) ==
  LET reply == ReopenTaskReply(a, id)
  IN  /\ authenticate(a)
      /\ IF reply.code = 200
         THEN /\ CanStamp
              /\ tasks' = [tasks EXCEPT ![id] = ReopenedTask(@, a, now)]
              /\ now' = now + 1
         ELSE UNCHANGED <<tasks, now>>
      /\ Answer("reopenTask", a, reply, {})
      /\ UNCHANGED <<users, groups, ledger, counter, procs>>

(***************************************************************************)
(* models/Group.js: schema validators and save hooks.                      *)
(***************************************************************************)
\* lead validator: an existing, active manager.
LeadValid(uid) ==
  LET u == UserFindById(uid)
  IN  u.exists /\ u.isActive /\ normalizeRole(u.role) = ROLES.MANAGER

\* members validator: an existing, active manager or employee.
MemberValid(uid) ==
  LET u == UserFindById(uid)
  IN  u.exists /\ u.isActive /\ normalizeRole(u.role) \in {ROLES.MANAGER, ROLES.EMPLOYEE}

\* tasks subdocument: taskId and assignedBy are required.
GroupTaskValid(e) == e.taskId # NoId /\ e.assignedBy # NoId

\* A variant of GroupPreSave that leaves the members alone; C5 fails of it.
GroupPreSaveSkipped(g) == g

\* pre('save'): ensure the lead is included in the members array.
GroupPreSave(g) ==
  IF g.lead # NoId /\ g.lead \notin SeqRange(g.members)
  THEN [g EXCEPT !.members = Append(@, g.lead)]
  ELSE g

\* [...new Set(list)]: first occurrences, in order.
RECURSIVE Dedup(_)
Dedup(s) ==
  IF s = <<>> THEN <<>>
  ELSE LET front == Dedup(SubSeq(s, 1, Len(s) - 1))
       IN  IF s[Len(s)] \in SeqRange(front) THEN front ELSE Append(front, s[Len(s)])

\* Always include lead + remove duplicates.
UniqueMembers(validMembers, leadId) == Dedup(Append(validMembers, leadId))

\* Validation of the paths a save has modified.
GroupValidates(g, leadModified, membersModified, tasksModified) ==
  /\ leadModified => LeadValid(g.lead)
  /\ membersModified => \A i \in 1..Len(g.members) : MemberValid(g.members[i])
  /\ tasksModified => \A i \in 1..Len(g.tasks) : GroupTaskValid(g.tasks[i])


(***************************************************************************)
(* routes/groups.js                                                        *)
(***************************************************************************)
\* The route's loop over memberIds: the message of the first id it rejects,
\* "" when it accepts them all.
MemberError(memberId) ==
  IF ~isValidObjectId(memberId) THEN "Invalid member ID"
  ELSE IF ~UserFindById(memberId).exists \/ ~UserFindById(memberId).isActive
  THEN "Invalid or inactive member"
  ELSE IF normalizeRole(UserFindById(memberId).role) \notin {ROLES.MANAGER, ROLES.EMPLOYEE}
  THEN "Member must be a manager or employee"
  ELSE ""

MembersError(memberIds) ==
  LET rejected == {i \in 1..Len(memberIds) : MemberError(memberIds[i]) # ""}
  IN  IF rejected = {} THEN ""
      ELSE MemberError(memberIds[CHOOSE i \in rejected : \A j \in rejected : i <= j])

CreateGroupReply(a, hasText, leadId, memberIds) ==
  IF ActorRole(a) \notin {ROLES.ADMIN, ROLES.MANAGER}
  THEN Reply(403, "Only admin/manager can create groups")
  ELSE IF ~hasText \/ leadId = NoId THEN Reply(400, "title, description, and leadId are required")
  ELSE IF ~isValidObjectId(leadId) THEN Reply(400, "leadId must be a valid user ObjectId")
  ELSE IF ~LeadValid(leadId) THEN Reply(400, "Lead must be an active manager")
  ELSE IF MembersError(memberIds) # "" THEN Reply(400, MembersError(memberIds))
  ELSE Reply(201, "")

NewGroup(a, leadId, memberIds) ==
  GroupPreSave([doc |-> "live", gid |-> 0, lead |-> leadId, members |-> UniqueMembers(memberIds, leadId),
                tasks |-> <<>>, createdBy |-> a, isActive |-> TRUE])

CreateGroup(a, hasText, leadId, memberIds) ==
  LET reply == CreateGroupReply(a, hasText, leadId, memberIds)
  IN  /\ authenticate(a)
      /\ IF reply.code = 201
         THEN /\ \E g \in GroupIds : groups[g] = NoGroup
              /\ CanDraw("group")
              /\ groups' = [groups EXCEPT ![NextGroupId] =
                               GroupIdPreSave(NewGroup(a, leadId, memberIds))]
              /\ counter' = Drawn("group")
         ELSE UNCHANGED <<groups, counter>>
      /\ Answer("createGroup", a, reply, {})
      /\ UNCHANGED <<users, tasks, ledger, now, procs>>

\* Admin, the creator or the lead may modify the group.
MayModifyGroup(a, g) ==
  ActorRole(a) = ROLES.ADMIN \/ g.createdBy = a \/ g.lead = a

\* Object.assign(group, updates): the document before validation and hooks.
GroupUpdates(g, hasLead, leadId, hasMembers, memberIds, isActive) ==
  LET currentLead == IF hasLead THEN leadId ELSE g.lead
  IN  [g EXCEPT !.lead = currentLead,
                !.members = IF hasMembers THEN UniqueMembers(memberIds, currentLead) ELSE @,
                !.isActive = IF isActive = Absent THEN @ ELSE isActive = "true"]

UpdateGroupReply(a, id, hasText, hasLead, leadId, hasMembers, memberIds, isActive) ==
  IF ~GroupExists(id) THEN Reply(404, "Group not found")
  ELSE IF ~MayModifyGroup(a, groups[id])
  THEN Reply(403, "Only admin, group creator, or group lead can modify this group")
  ELSE IF hasLead /\ ~isValidObjectId(leadId) THEN Reply(400, "leadId must be a valid user ObjectId")
  ELSE IF hasLead /\ ~LeadValid(leadId) THEN Reply(400, "New lead must be an active manager")
  ELSE IF hasMembers /\ MembersError(memberIds) # "" THEN Reply(400, MembersError(memberIds))
  ELSE IF ~hasText /\ ~hasLead /\ ~hasMembers /\ isActive = Absent
  THEN Reply(400, "No valid fields to update")
  ELSE IF ~GroupValidates(GroupUpdates(groups[id], hasLead, leadId, hasMembers, memberIds, isActive),
                          hasLead, hasMembers, FALSE)
  THEN Reply(500, "Update group error")
  ELSE Reply(200, "")

UpdateGroup(a, id, hasText, hasLead, leadId, hasMembers, memberIds, isActive) ==
  LET reply == UpdateGroupReply(a, id, hasText, hasLead, leadId, hasMembers, memberIds, isActive)
  IN  /\ authenticate(a)
      /\ groups' = IF reply.code = 200
                   THEN [groups EXCEPT ![id] =
                           GroupPreSave(GroupUpdates(@, hasLead, leadId, hasMembers, memberIds, isActive))]
                   ELSE groups
      /\ Answer("updateGroup", a, reply, {})
      /\ UNCHANGED <<users, tasks, ledger, now, counter, procs>>

\* group.tasks.includes(taskId): the array holds subdocuments, the argument
\* is the id string of the request; a subdocument never equals a string.
SubdocEqualsId(e, taskId) == FALSE

GroupTasksIncludes(g, taskId) == \E i \in 1..Len(g.tasks) : SubdocEqualsId(g.tasks[i], taskId)

\* group.tasks.push(taskId): the bare id is cast to a subdocument that has
\* the id as its _id and none of the schema's fields but the defaults.
CastGroupTask(taskId) == [id |-> taskId, taskId |-> NoId, status |-> "Todo", assignedBy |-> NoId]

AddGroupTaskReply(a, id, taskId) ==
  IF taskId = NoId THEN Reply(400, "taskId is required")
  ELSE IF ~isValidObjectId(taskId) THEN Reply(400, "taskId must be a valid ObjectId")
  ELSE IF ~GroupExists(id) THEN Reply(404, "Group not found")
  ELSE IF ~MayModifyGroup(a, groups[id])
  THEN Reply(403, "Only admin, group creator, or group lead can add tasks")
  ELSE IF GroupTasksIncludes(groups[id], taskId) THEN Reply(400, "Task already in this group")
  ELSE IF ~GroupValidates([groups[id] EXCEPT !.tasks = Append(@, CastGroupTask(taskId))],
                          FALSE, FALSE, TRUE)
  THEN Reply(500, "Add task to group error")
  ELSE Reply(200, "")

AddGroupTask(a, id, taskId) ==
  LET reply == AddGroupTaskReply(a, id, taskId)
  IN  /\ authenticate(a)
      /\ groups' = IF reply.code = 200
                   THEN [groups EXCEPT ![id] =
                           GroupPreSave([@ EXCEPT !.tasks = Append(@, CastGroupTask(taskId))])]
                   ELSE groups
      /\ Answer("addGroupTask", a, reply, {})
      /\ UNCHANGED <<users, tasks, ledger, now, counter, procs>>

DeleteGroupReply(a, id) ==
  IF ActorRole(a) # ROLES.ADMIN THEN Reply(403, "Only admin can delete groups")
  ELSE IF ~GroupExists(id) THEN Reply(404, "Group not found")
  ELSE Reply(200, "Group deleted")

DeleteGroup(a, id) ==
  LET reply == DeleteGroupReply(a, id)
  IN  /\ authenticate(a)
      /\ groups' = IF reply.code = 200 THEN [groups EXCEPT ![id] = GoneGroup] ELSE groups
      /\ Answer("deleteGroup", a, reply, {})
      /\ UNCHANGED <<users, tasks, ledger, now, counter, procs>>

(***************************************************************************)
(* models/User.js: the UserTasks ledger methods.                           *)
(***************************************************************************)
LedgerHas(l, taskId) == \E i \in 1..Len(l.assignedTasks) : l.assignedTasks[i].taskId = taskId

\* addTask: refresh the entry of the task if there is one, else push one.
LedgerAddTask(l, taskId, assignedBy, status) ==
  IF LedgerHas(l, taskId)
  THEN [l EXCEPT !.doc = "live",
                 !.assignedTasks = [i \in 1..Len(@) |->
                    IF @[i].taskId = taskId
                    THEN [taskId |-> taskId, status |-> status, assignedBy |-> assignedBy]
                    ELSE @[i]]]
  ELSE [l EXCEPT !.doc = "live",
                 !.assignedTasks = Append(@, [taskId |-> taskId, status |-> status,
                                              assignedBy |-> assignedBy])]

\* updateTaskStatus: throws when the task is not in the ledger.
LedgerUpdateTaskStatus(l, taskId, newStatus) ==
  [l EXCEPT !.assignedTasks = [i \in 1..Len(@) |->
     IF @[i].taskId = taskId THEN [@[i] EXCEPT !.status = newStatus] ELSE @[i]]]

RECURSIVE SeqWithout(_, _)
SeqWithout(s, taskId) ==
  IF s = <<>> THEN <<>>
  ELSE IF s[1].taskId = taskId THEN SeqWithout(Tail(s), taskId)
  ELSE <<s[1]>> \o SeqWithout(Tail(s), taskId)

LedgerRemoveTask(l, taskId) == [l EXCEPT !.assignedTasks = SeqWithout(@, taskId)]

\* The instance methods models/Task.js defines on a task document.
TaskMethods ==
  {"addComment", "getRecentComments", "updateStatus", "assignUser", "assignGroup",
   "removeAssignment", "isUserAssigned", "canUserAccess", "toClient"}

(***************************************************************************)
(* routes/userTasks.js                                                     *)
(***************************************************************************)
\* POST /user-tasks/:userId/tasks: the ledger is saved first, then the
\* handler calls taskDoc.assignUsers, which is not a method of Task.
AssignUserTaskReply(a, userId, taskId, status) ==
  IF ActorRole(a) \notin {ROLES.ADMIN, ROLES.MANAGER}
  THEN Reply(403, "Only admin/manager can assign tasks")
  ELSE IF ~isValidObjectId(userId) \/ ~isValidObjectId(taskId)
  THEN Reply(400, "Invalid user ID or task ID")
  ELSE IF status \notin SeqRange(STATUSES) THEN Reply(400, "Status must be one of")
  ELSE IF ~TaskExists(taskId) THEN Reply(404, "Task not found")
  ELSE IF "assignUsers" \notin TaskMethods THEN Reply(500, "Assign task error")
  ELSE Reply(201, "")

AssignUserTask(a, userId, taskId, status) ==
  LET reply == AssignUserTaskReply(a, userId, taskId, status)
  IN  /\ authenticate(a)
      /\ reply.code # 201
      /\ ledger' = IF reply.code = 500
                   THEN [ledger EXCEPT ![userId] = LedgerAddTask(@, taskId, a, status)]
                   ELSE ledger
      /\ Answer("assignUserTask", a, reply, {})
      /\ UNCHANGED <<users, tasks, groups, now, counter, procs>>

\* PATCH /user-tasks/:userId/tasks/:taskId: Admin, or the user of the ledger.
UpdateUserTaskReply(a, userId, taskId, status) ==
  IF status \notin SeqRange(STATUSES) THEN Reply(400, "Status is required and must be one of")
  ELSE IF ActorRole(a) # ROLES.ADMIN /\ a # userId
  THEN Reply(403, "You can only update your own task status")
  ELSE IF ~isValidObjectId(userId) \/ ~isValidObjectId(taskId)
  THEN Reply(400, "Invalid user ID or task ID")
  ELSE IF ledger[userId].doc # "live" THEN Reply(404, "User has no assigned tasks")
  ELSE IF ~LedgerHas(ledger[userId], taskId) THEN Reply(500, "Update task status error")
  ELSE Reply(200, "")

UpdateUserTask(a, userId, taskId, status) ==
  LET reply == UpdateUserTaskReply(a, userId, taskId, status)
      changes == reply.code = 200 /\ TaskExists(taskId) /\ tasks[taskId].status.status # status
  IN  /\ authenticate(a)
      /\ ledger' = IF reply.code = 200
                   THEN [ledger EXCEPT ![userId] = LedgerUpdateTaskStatus(@, taskId, status)]
                   ELSE ledger
      /\ IF changes
         THEN /\ CanStamp
              /\ tasks' = [tasks EXCEPT ![taskId] = updateStatus(@, status, a, "Updated by user", now)]
              /\ now' = now + 1
         ELSE UNCHANGED <<tasks, now>>
      /\ Answer("updateUserTask", a, reply, {})
      /\ UNCHANGED <<users, groups, counter, procs>>

\* DELETE /user-tasks/:userId/tasks/:taskId: the ledger is saved first, then
\* the handler calls taskDoc.removeUsers, which is not a method of Task.
RemoveUserTaskReply(a, userId, taskId) ==
  IF ActorRole(a) \notin {ROLES.ADMIN, ROLES.MANAGER}
  THEN Reply(403, "Only admin/manager can remove task assignments")
  ELSE IF ~isValidObjectId(userId) \/ ~isValidObjectId(taskId)
  THEN Reply(400, "Invalid user ID or task ID")
  ELSE IF ledger[userId].doc # "live" THEN Reply(404, "User has no assigned tasks")
  ELSE IF TaskExists(taskId) /\ "removeUsers" \notin TaskMethods
  THEN Reply(500, "Remove task error")
  ELSE Reply(200, "Task removed from user successfully")

RemoveUserTask(a, userId, taskId) ==
  LET reply == RemoveUserTaskReply(a, userId, taskId)
  IN  /\ authenticate(a)
      /\ ledger' = IF reply.code \in {500, 200}
                   THEN [ledger EXCEPT ![userId] = LedgerRemoveTask(@, taskId)]
                   ELSE ledger
      /\ Answer("removeUserTask", a, reply, {})
      /\ UNCHANGED <<users, tasks, groups, now, counter, procs>>

(***************************************************************************)
(* routes/users.js: the Admin-only user administration.                    *)
(***************************************************************************)
\* PATCH /users/:id/toggle
ToggleUserReply(a, id) ==
  IF ~permit(a, {ROLES.ADMIN}) THEN Reply(403, "Forbidden")
  ELSE IF ~UserFindById(id).exists THEN Reply(404, "User not found")
  ELSE Reply(200, "")

ToggleUser(a, id) ==
  LET reply == ToggleUserReply(a, id)
  IN  /\ authenticate(a)
      /\ users' = IF reply.code = 200 THEN [users EXCEPT ![id].isActive = ~@] ELSE users
      /\ Answer("toggleUser", a, reply, {})
      /\ UNCHANGED <<tasks, groups, ledger, now, counter, procs>>

\* PATCH /users/:id: the role enum is validated as sent; the save hook
\* stores the normalized role.
EditedUser(u, role, isActive) ==
  [u EXCEPT !.role = IF role = Absent THEN @ ELSE normalizeRole(role),
            !.isActive = IF isActive = Absent THEN @ ELSE isActive = "true"]

EditUserReply(a, id, role, isActive) ==
  IF ~permit(a, {ROLES.ADMIN}) THEN Reply(403, "Forbidden")
  ELSE IF ~UserFindById(id).exists THEN Reply(404, "User not found")
  ELSE IF role # Absent /\ role \notin RoleValues THEN Reply(500, "Edit user error")
  ELSE Reply(200, "")

EditUser(a, id, role, isActive) ==
  LET reply == EditUserReply(a, id, role, isActive)
  IN  /\ authenticate(a)
      /\ users' = IF reply.code = 200
                  THEN [users EXCEPT ![id] = EditedUser(@, role, isActive)]
                  ELSE users
      /\ Answer("editUser", a, reply, {})
      /\ UNCHANGED <<tasks, groups, ledger, now, counter, procs>>

\* DELETE /users/:id
DeleteUserReply(a, id) ==
  IF ~permit(a, {ROLES.ADMIN}) THEN Reply(403, "Forbidden")
  ELSE IF ~UserFindById(id).exists THEN Reply(404, "User not found")
  ELSE Reply(200, "User deleted")

DeleteUser(a, id) ==
  LET reply == DeleteUserReply(a, id)
  IN  /\ authenticate(a)
      /\ users' = IF reply.code = 200 THEN [users EXCEPT ![id] = NoUser] ELSE users
      /\ Answer("deleteUser", a, reply, {})
      /\ UNCHANGED <<tasks, groups, ledger, now, counter, procs>>

(***************************************************************************)
(* Task assignment: Admin, Manager and Employee create, edit, assign,      *)
(* unassign and delete tasks; groups are created and switched on and off;  *)
(* the Admin toggles users.  Status updates and the ledger never touch the *)
(* assignment of a task.                                                   *)
(***************************************************************************)
ActiveInputs == {Absent, "true", "false"}

Next ==
  \E a \in UserIds :
    \/ \E uid \in UserRefs, gid \in GroupRefs : CreateTask(a, "A", Absent, uid, gid, Absent, {}, NoAttachments)
    \/ \E id \in TaskIds, assigneeId \in UserRefs :
         UpdateTask(a, id, Absent, Absent, TRUE, assigneeId, NoAttachments)
    \/ \E id \in TaskIds, userId \in UserRefs, groupId \in GroupRefs :
         AssignTask(a, id, userId, groupId)
    \/ \E id \in TaskIds : UnassignTask(a, id)
    \/ \E id \in TaskIds : DeleteTask(a, id)
    \/ \E leadId \in UserIds : CreateGroup(a, TRUE, leadId, <<>>)
    \/ \E id \in GroupIds, isActive \in ActiveInputs :
         UpdateGroup(a, id, FALSE, FALSE, NoId, FALSE, <<>>, isActive)
    \/ \E id \in UserIds : ToggleUser(a, id)

Spec == Init /\ [][Next]_vars

\* C1: in every reachable state no task has both assignedTo.user and
\* assignedTo.group set; a successful assignment of a user leaves exactly
\* that user and no group, of a group exactly that group and no user, a
\* successful update with assigneeId leaves that user (or nothing, for an
\* empty assigneeId) and no group, an unassignment leaves neither, and a
\* create or assign request that names both is rejected without a write.
C1_AssignmentIsEitherUserOrGroup ==
  /\ [](\A t \in TaskIds :
          TaskExists(t) => ~(tasks[t].assignedTo.user # NoId /\ tasks[t].assignedTo.group # NoId))
  /\ [][/\ last'.op = "assignTask" =>
             \A a \in {last'.actor}, id \in TaskIds, userId \in UserRefs, groupId \in GroupRefs :
               AssignTask(a, id, userId, groupId) =>
                 IF userId # NoId /\ groupId # NoId
                 THEN last'.code \in {400, 403} /\ tasks' = tasks
                 ELSE last'.code = 200 =>
                        tasks'[id].assignedTo = [user |-> userId, group |-> groupId]
        /\ last'.op = "createTask" =>
             \A a \in {last'.actor}, uid \in UserRefs, gid \in GroupRefs :
               CreateTask(a, "A", Absent, uid, gid, Absent, {}, NoAttachments) =>
                 IF uid # NoId /\ gid # NoId
                 THEN last'.code \in {400, 403} /\ tasks' = tasks
                 ELSE last'.code = 201 =>
                        tasks'[NextTaskId].assignedTo = [user |-> uid, group |-> gid]
        /\ last'.op = "updateTask" /\ last'.code = 200 =>
             \A a \in {last'.actor}, id \in TaskIds, assigneeId \in UserRefs :
               UpdateTask(a, id, Absent, Absent, TRUE, assigneeId, NoAttachments) =>
                 tasks'[id].assignedTo = [user |-> assigneeId, group |-> NoId]
        /\ last'.op = "unassignTask" /\ last'.code = 200 =>
             \A id \in TaskIds : tasks'[id].assignedTo = [user |-> NoId, group |-> NoId]]_vars

\* C1 witness: a successful PATCH /tasks/:id/assign has left the task
\* assigned to the group and to no user.
C1_Witness ==
  /\ last.op = "assignTask" /\ last.code = 200
  /\ TaskExists(1)
  /\ tasks[1].assignedTo = [user |-> NoId, group |-> 1]

\* C6: an operation that sets a task's assignment succeeds only if the
\* target user exists and is active, or the target group exists and is
\* active, when the request is made; with any other target it does not
\* succeed, creates no task and leaves the assignment as it was, and it is
\* answered 400 whenever the actor may use the endpoint, the task exists and
\* the request names one target.
C6_AssignmentTargetMustBeActive ==
  [][/\ last'.op = "assignTask" =>
         \A a \in {last'.actor}, id \in TaskIds, userId \in UserRefs, groupId \in GroupRefs :
           (AssignTask(a, id, userId, groupId) /\ (userId = NoId) # (groupId = NoId)) =>
             LET ok == IF userId # NoId
                       THEN userId \in UserIds /\ users[userId].exists /\ users[userId].isActive
                       ELSE groupId \in GroupIds /\ groups[groupId].doc = "live" /\ groups[groupId].isActive
             IN  /\ last'.code = 200 => ok
                 /\ ~ok => /\ tasks' = tasks
                           /\ (ActorRole(a) \in {"admin", "manager"} /\ TaskExists(id)) => last'.code = 400
     /\ last'.op = "createTask" =>
         \A a \in {last'.actor}, uid \in UserRefs, gid \in GroupRefs :
           (CreateTask(a, "A", Absent, uid, gid, Absent, {}, NoAttachments) /\ (uid = NoId) # (gid = NoId)) =>
             LET ok == IF uid # NoId
                       THEN uid \in UserIds /\ users[uid].exists /\ users[uid].isActive
                       ELSE gid \in GroupIds /\ groups[gid].doc = "live" /\ groups[gid].isActive
             IN  /\ last'.code = 201 => ok
                 /\ ~ok => /\ tasks' = tasks
                           /\ ActorRole(a) \in {"admin", "manager"} => last'.code = 400
     /\ last'.op = "updateTask" =>
         \A a \in {last'.actor}, id \in TaskIds, assigneeId \in UserRefs \ {NoId} :
           UpdateTask(a, id, Absent, Absent, TRUE, assigneeId, NoAttachments) =>
             LET ok == assigneeId \in UserIds /\ users[assigneeId].exists /\ users[assigneeId].isActive
             IN  /\ last'.code = 200 => ok
                 /\ ~ok => /\ tasks'[id].assignedTo = tasks[id].assignedTo
                           /\ (TaskExists(id) /\ MayModifyTask(a, tasks[id])) => last'.code = 400]_vars

\* C6 witness: a task assigned to user 2 stays assigned to user 2 after an
\* assignment to a deactivated or unknown user was answered 400.
C6_Witness ==
  /\ last.op = "assignTask" /\ last.code = 400 /\ last.message = "Invalid or inactive user"
  /\ ~users[3].isActive
  /\ TaskExists(1) /\ tasks[1].assignedTo.user = 2

\* C10: every successful assignment of a task to a user has (actor role,
\* assignee role) in the assignable-to relation of utils/roles.js.
C10_AssignsOnlyAssignablePairs ==
  [][last'.op \in {"assignTask", "createTask", "updateTask"} /\ last'.code \in {200, 201} =>
       \A t \in TaskIds :
         (tasks'[t].assignedTo.user # NoId /\ tasks'[t].assignedTo.user # tasks[t].assignedTo.user) =>
           canAssign(users[last'.actor].role, users[tasks'[t].assignedTo.user].role)]_vars

(***************************************************************************)
(* Task permissions: the task requests of every actor, while the Admin     *)
(* changes the roles of users, so that the creator of a task can be of any *)
(* role.                                                                   *)
(***************************************************************************)
UpdateTitleInputs == {Absent, "B"}
RoleInputs == {"admin", "manager", "employee", "MANAGER"}
UpdatePriorityInputs == {Absent, "Bogus"}

NextPerm ==
  \E a \in UserIds :
    \/ \E uid \in {NoId, 3} : CreateTask(a, "A", Absent, uid, NoId, Absent, {}, NoAttachments)
    \/ \E id \in TaskIds, title \in UpdateTitleInputs, priority \in UpdatePriorityInputs,
          hasAssignee \in BOOLEAN :
         UpdateTask(a, id, title, priority, hasAssignee, IF hasAssignee THEN 2 ELSE NoId, NoAttachments)
    \/ \E id \in TaskIds, userId \in {NoId, 2} : AssignTask(a, id, userId, NoId)
    \/ \E id \in TaskIds : UnassignTask(a, id)
    \/ \E id \in TaskIds : DeleteTask(a, id)
    \/ \E id \in UserIds, role \in RoleInputs : EditUser(a, id, role, Absent)

SpecPerm == Init /\ [][NextPerm]_vars

\* C8: a task comes into being, or has its assignment changed, only by an
\* actor whose role is Admin or Manager; its title or priority is changed
\* only by an Admin, a Manager or its creator; it is deleted only by an
\* Admin.
C8_TaskMutationsFollowRoleTable ==
  [][\A t \in TaskIds :
       LET role == ActorRole(last'.actor)
       IN  /\ (tasks[t].doc # "live" /\ tasks'[t].doc = "live") =>
                role \in {ROLES.ADMIN, ROLES.MANAGER}
           /\ (TaskExists(t) /\ tasks'[t].doc = "live"
                 /\ tasks'[t].assignedTo # tasks[t].assignedTo) =>
                role \in {ROLES.ADMIN, ROLES.MANAGER}
           /\ (TaskExists(t) /\ tasks'[t].doc = "live"
                 /\ <<tasks'[t].title, tasks'[t].priority>> # <<tasks[t].title, tasks[t].priority>>) =>
                (role \in {ROLES.ADMIN, ROLES.MANAGER} \/ tasks[t].createdBy = last'.actor)
           /\ (TaskExists(t) /\ tasks'[t].doc = "gone") => role = ROLES.ADMIN]_vars

(***************************************************************************)
(* Task status: a task is created, its status is updated through           *)
(* PATCH /tasks/:id/status, and the user-tasks routes write the ledger of  *)
(* user 3 and update the status of the task through it.                    *)
(***************************************************************************)
StatusInputs == {"Todo", "InProgress", "Completed", "Bogus"}
LedgerStatusInputs == {"Completed", "Bogus"}
LedgerUserRefs == {3, BadId}

NextStatus ==
  \E a \in UserIds :
    \/ \E uid \in {NoId, 3} : CreateTask(a, "A", Absent, uid, NoId, Absent, {}, NoAttachments)
    \/ \E id \in TaskIds, status \in StatusInputs : UpdateTaskStatus(a, id, status, "note")
    \/ \E userId \in LedgerUserRefs, taskId \in TaskIds : AssignUserTask(a, userId, taskId, "Todo")
    \/ \E userId \in LedgerUserRefs, taskId \in TaskIds, status \in LedgerStatusInputs :
         UpdateUserTask(a, userId, taskId, status)

SpecStatus == Init /\ [][NextStatus]_vars

\* C2: a successful PATCH /tasks/:id/status whose status differs from the
\* live one appends exactly one entry to statusHistory, the entry is the
\* status record that was live before the call, and the live status becomes
\* the requested one, updated by the actor at the time of the call; hence in
\* every reachable state each history entry differs in status from the
\* record that followed it, and the history of a task created as Todo
\* begins with Todo.
C2_StatusChangeRecordsPriorStatus ==
  /\ [][last'.op = "updateTaskStatus" /\ last'.code = 200 =>
          \A id \in TaskIds, status \in SeqRange(STATUSES) :
            (UpdateTaskStatus(last'.actor, id, status, "note") /\ tasks[id].status.status # status) =>
              /\ Len(tasks'[id].statusHistory) = Len(tasks[id].statusHistory) + 1
              /\ SubSeq(tasks'[id].statusHistory, 1, Len(tasks[id].statusHistory)) = tasks[id].statusHistory
              /\ LET e == tasks'[id].statusHistory[Len(tasks'[id].statusHistory)]
                 IN  /\ e.status = tasks[id].status.status
                     /\ e.updatedAt = tasks[id].status.updatedAt
                     /\ e.updatedBy = tasks[id].status.updatedBy
              /\ tasks'[id].status = [status |-> status, updatedAt |-> now, updatedBy |-> last'.actor]]_vars
  /\ [](\A t \in TaskIds :
          TaskExists(t) =>
            LET h == tasks[t].statusHistory
            IN  /\ h # <<>> => h[1].status = "Todo"
                /\ \A i \in 1..Len(h) :
                     h[i].status # (IF i < Len(h) THEN h[i + 1].status ELSE tasks[t].status.status))

\* C2 witness: a task created as Todo was moved to InProgress and then, by
\* PATCH /tasks/:id/status, to Completed: its history is [Todo, InProgress].
C2_Witness ==
  /\ last.op = "updateTaskStatus" /\ last.code = 200
  /\ TaskExists(1)
  /\ tasks[1].status.status = "Completed" /\ tasks[1].status.updatedBy = last.actor
  /\ Len(tasks[1].statusHistory) = 2
  /\ tasks[1].statusHistory[1].status = "Todo"
  /\ tasks[1].statusHistory[2].status = "InProgress"

\* C3: a successful status update whose status equals the live status
\* leaves the task as it was, history and live status record included; and
\* updating any reachable task to a status a second time, by any actor at
\* any later time, gives the task the first update gave.
C3_SameStatusUpdateIsNoOp ==
  /\ [][last'.op = "updateTaskStatus" /\ last'.code = 200 =>
          \A id \in TaskIds, status \in SeqRange(STATUSES) :
            (UpdateTaskStatus(last'.actor, id, status, "note") /\ tasks[id].status.status = status) =>
              tasks' = tasks]_vars
  /\ [](\A t \in TaskIds, status \in SeqRange(STATUSES), a \in UserIds, b \in UserIds :
          TaskExists(t) =>
            LET once == updateStatus(tasks[t], status, a, "note", now)
            IN  /\ updateStatus(once, status, b, "again", now + 1) = once
                /\ tasks[t].status.status = status => once = tasks[t])

\* C3 witness: after a status change by one actor, another actor's update to
\* the same status was answered 200 and the live record still names the
\* first actor.
C3_Witness ==
  /\ last.op = "updateTaskStatus" /\ last.code = 200
  /\ TaskExists(1)
  /\ tasks[1].status.status = "InProgress"
  /\ tasks[1].status.updatedBy # last.actor
  /\ Len(tasks[1].statusHistory) = 1

\* C9: a status-update request changes the live status or the history of a
\* task only if the actor is an Admin, a Manager, the creator of the task or
\* the user it is directly assigned to.
C9_StatusChangedOnlyByPermittedActor ==
  [][last'.op \in {"updateTaskStatus", "updateUserTask"} =>
       \A t \in TaskIds :
         (TaskExists(t) /\ (tasks'[t].status # tasks[t].status
                              \/ tasks'[t].statusHistory # tasks[t].statusHistory)) =>
           MayUpdateStatus(last'.actor, tasks[t])]_vars

(***************************************************************************)
(* Task visibility: tasks are created, assigned and unassigned, groups are *)
(* created, given leads and members and deleted, the Admin changes the     *)
(* roles of users 2 and 3, and every actor lists the tasks and gets them   *)
(* by id.                                                                  *)
(***************************************************************************)
ScopeUserRefs == {NoId, 2, 3}
ScopeMemberLists == {<<>>, <<3>>}
ScopeRoleInputs == {"manager", "employee"}

NextScope ==
  \E a \in UserIds :
    \/ \E uid \in ScopeUserRefs, gid \in GroupRefs : CreateTask(a, "A", Absent, uid, gid, Absent, {}, NoAttachments)
    \/ \E id \in TaskIds, userId \in ScopeUserRefs, groupId \in GroupRefs :
         AssignTask(a, id, userId, groupId)
    \/ \E id \in TaskIds : UnassignTask(a, id)
    \/ \E leadId \in UserIds, memberIds \in ScopeMemberLists : CreateGroup(a, TRUE, leadId, memberIds)
    \/ \E id \in GroupIds, leadId \in {2, 3} :
         UpdateGroup(a, id, FALSE, TRUE, leadId, FALSE, <<>>, Absent)
    \/ \E id \in GroupIds, memberIds \in ScopeMemberLists :
         UpdateGroup(a, id, FALSE, FALSE, NoId, TRUE, memberIds, Absent)
    \/ \E id \in GroupIds : DeleteGroup(a, id)
    \/ \E id \in {2, 3}, role \in ScopeRoleInputs : EditUser(a, id, role, Absent)
    \/ ListTasks(a)
    \/ \E id \in TaskIds : GetTask(a, id)

SpecScope == Init /\ [][NextScope]_vars

\* C4: the tasks GET /tasks returns to an actor, and the tasks GET /tasks/:id
\* finds for the actor, are exactly the existing tasks that are: any task,
\* for an Admin; created by the actor, directly assigned to the actor, or
\* assigned to a group the actor leads or is a member of, for a Manager;
\* directly assigned to the actor or assigned to a group the actor is a
\* member of, for an Employee.  Get-by-id answers 404 for any other task.
C4_TaskScopeByRole ==
  /\ [](LET InGroupOf(a, t, asLead) ==
              \E g \in GroupIds :
                /\ groups[g].doc = "live"
                /\ tasks[t].assignedTo.group = g
                /\ \/ \E i \in 1..Len(groups[g].members) : groups[g].members[i] = a
                   \/ asLead /\ groups[g].lead = a
            Visible(a, t) ==
              /\ tasks[t].doc = "live"
              /\ \/ users[a].role = "admin"
                 \/ /\ users[a].role = "manager"
                    /\ \/ tasks[t].createdBy = a
                       \/ tasks[t].assignedTo.user = a
                       \/ InGroupOf(a, t, TRUE)
                 \/ /\ users[a].role = "employee"
                    /\ \/ tasks[t].assignedTo.user = a
                       \/ InGroupOf(a, t, FALSE)
        IN  last.op = "listTasks" =>
              last.code = 200 /\ last.seen = {t \in TaskIds : Visible(last.actor, t)})
  /\ [][LET InGroupOf(a, t, asLead) ==
              \E g \in GroupIds :
                /\ groups[g].doc = "live"
                /\ tasks[t].assignedTo.group = g
                /\ \/ \E i \in 1..Len(groups[g].members) : groups[g].members[i] = a
                   \/ asLead /\ groups[g].lead = a
            Visible(a, t) ==
              /\ tasks[t].doc = "live"
              /\ \/ users[a].role = "admin"
                 \/ /\ users[a].role = "manager"
                    /\ \/ tasks[t].createdBy = a
                       \/ tasks[t].assignedTo.user = a
                       \/ InGroupOf(a, t, TRUE)
                 \/ /\ users[a].role = "employee"
                    /\ \/ tasks[t].assignedTo.user = a
                       \/ InGroupOf(a, t, FALSE)
        IN  last'.op = "getTask" =>
              \A id \in TaskIds :
                GetTask(last'.actor, id) =>
                  IF Visible(last'.actor, id)
                  THEN last'.code = 200 /\ last'.seen = {id}
                  ELSE last'.code = 404 /\ last'.seen = {}]_vars

\* C4 witness: an Employee who is a member of the group a task is assigned
\* to, and has no other relation to the task, is listed the task.
C4_Witness ==
  /\ last.op = "listTasks" /\ last.actor = 3 /\ users[3].role = "employee"
  /\ last.seen = {1}
  /\ tasks[1].assignedTo = [user |-> NoId, group |-> 1]
  /\ tasks[1].createdBy # 3

(***************************************************************************)
(* Groups: every actor creates, updates and deletes groups and adds tasks  *)
(* to them, while the Admin changes the roles of users 2 and 3.  No group  *)
(* handler reads a task or a ledger.                                       *)
(***************************************************************************)
MemberCandidates == {2, 3}
MemberLists == UNION {[1..n -> MemberCandidates] : n \in 0..MaxMemberIds}

NextGroups ==
  \E a \in UserIds :
    \/ \E leadId \in UserIds, memberIds \in MemberLists : CreateGroup(a, TRUE, leadId, memberIds)
    \/ \E id \in GroupIds, hasLead \in BOOLEAN, hasMembers \in BOOLEAN :
         \E leadId \in IF hasLead THEN UserIds ELSE {NoId},
            memberIds \in IF hasMembers THEN MemberLists ELSE {<<>>} :
           UpdateGroup(a, id, FALSE, hasLead, leadId, hasMembers, memberIds, Absent)
    \/ \E id \in GroupIds, taskId \in TaskIds \cup {NoId, BadId} : AddGroupTask(a, id, taskId)
    \/ \E id \in GroupIds : DeleteGroup(a, id)
    \/ \E id \in {2, 3}, role \in ScopeRoleInputs : EditUser(a, id, role, Absent)

SpecGroups == Init /\ [][NextGroups]_vars

C7_FirstAddSucceedsSecondRejected ==
  [][last'.op = "addGroupTask" =>
       \A id \in GroupIds, taskId \in TaskIds :
         (AddGroupTask(last'.actor, id, taskId) /\ GroupExists(id)
            /\ MayModifyGroup(last'.actor, groups[id])) =>
           IF \E i \in 1..Len(groups[id].tasks) : groups[id].tasks[i].taskId = taskId
           THEN last'.code = 400 /\ groups' = groups
           ELSE /\ last'.code = 200
                /\ \E i \in 1..Len(groups'[id].tasks) : groups'[id].tasks[i].taskId = taskId]_vars

(***************************************************************************)
(* routes/auth.js: POST /auth/login needs no credential.                   *)
(***************************************************************************)
UserFindOneByEmail(email) ==
  IF \E u \in UserIds : users[u].exists /\ users[u].email = email
  THEN CHOOSE u \in UserIds : users[u].exists /\ users[u].email = email
  ELSE NoId

comparePassword(u, candidate) == u.password = Hash(candidate)

LoginReply(email, password) ==
  IF email = Absent \/ password = Absent THEN Reply(400, "Email and password are required")
  ELSE IF UserFindOneByEmail(email) = NoId THEN Reply(400, "Invalid credentials")
  ELSE IF ~comparePassword(users[UserFindOneByEmail(email)], password)
  THEN Reply(400, "Invalid credentials")
  ELSE Reply(200, "")

\* sign(user): the token carries the id and the normalized role the user
\* has when it is issued.
sign(u) == normalizeRole(users[u].role)

Login(c, email, password) ==
  /\ last' = Resp("login", c, LoginReply(email, password), {})
  /\ tokens' = IF LoginReply(email, password).code = 200
                THEN [tokens EXCEPT ![UserFindOneByEmail(email)] = sign(UserFindOneByEmail(email))]
                ELSE tokens
  /\ UNCHANGED <<users, tasks, groups, ledger, counter, procs, now>>

\* The routes mounted behind `authenticate`.
GuardedRoutes ==
  {"register", "listUsers", "createUser", "deleteUser", "editUser", "toggleUser",
   "changePassword", "createTask", "listTasks", "getTask", "updateTask", "addComment",
   "updateTaskStatus", "assignTask", "unassignTask", "deleteTask", "reopenTask",
   "notifications", "reassignmentStats", "adminDashboard", "createGroup", "listGroups", "getGroup", "updateGroup", "myGroups",
   "groupAnalytics", "addGroupTask", "deleteGroup", "getUserTasks", "assignUserTask",
   "updateUserTask", "removeUserTask"}

\* A request to a guarded route whose credential the middleware refuses:
\* the handler never runs.
Unauthenticated(op, c) ==
  /\ ~authenticate(c)
  /\ Answer(op, c, authenticateReply(c), {})
  /\ UNCHANGED <<users, tasks, groups, ledger, counter, procs, now>>

(***************************************************************************)
(* Authentication: requests arrive with every kind of credential while the *)
(* Admin switches users 2 and 3 on and off and deletes user 3; behind the  *)
(* middleware, tasks and groups are written.                               *)
(***************************************************************************)
LoginEmails == {SeedAdminEmail, "nobody@example.com"}
LoginPasswords == {SeedAdminPassword, "Wrong@123"}

NextAuth ==
  \E c \in Credentials :
    \/ \E op \in GuardedRoutes : Unauthenticated(op, c)
    \/ \E email \in LoginEmails, password \in LoginPasswords : Login(c, email, password)
    \/ \E id \in {2, 3} : ToggleUser(c, id)
    \/ DeleteUser(c, 3)
    \/ CreateTask(c, "A", Absent, NoId, NoId, Absent, {}, NoAttachments)
    \/ \E id \in TaskIds : UpdateTaskStatus(c, id, "Completed", "note")
    \/ CreateGroup(c, TRUE, 2, <<>>)

SpecAuth == Init /\ [][NextAuth]_vars

toLowerCase(r) ==
  CASE r \in {"admin", "ADMIN"} -> "admin"
    [] r \in {"manager", "MANAGER"} -> "manager"
    [] r \in {"employee", "EMPLOYEE"} -> "employee"
    [] OTHER -> r

ListUsersReply(a, role) ==
  IF role # Absent /\ toLowerCase(role) \notin RoleValues
  THEN Reply(400, "Invalid role filter")
  ELSE IF role # Absent /\ ActorRole(a) = ROLES.MANAGER /\ toLowerCase(role) # ROLES.EMPLOYEE
  THEN Reply(403, "Managers can only view workers")
  ELSE Reply(200, "")

\* A variant of UserQuery that gives a Manager without a filter the query
\* of an Admin; C12 fails of it.
UserQueryUnscoped(a, role) == IF role # Absent THEN toLowerCase(role) ELSE Absent

\* The role the query asks for; Absent: the query has no role condition.
UserQuery(a, role) ==
  IF role # Absent THEN toLowerCase(role)
  ELSE IF ActorRole(a) = ROLES.MANAGER THEN ROLES.EMPLOYEE
  ELSE Absent

\* User.find(query)
UserFind(q) == {u \in UserIds : users[u].exists /\ (q = Absent \/ users[u].role = q)}

ListUsers(a, role) ==
  LET reply == ListUsersReply(a, role)
  IN  /\ authenticate(a)
      /\ Answer("listUsers", a, reply,
                      IF reply.code = 200 THEN UserFind(UserQuery(a, role)) ELSE {})
      /\ UNCHANGED <<users, tasks, groups, ledger, counter, procs, now>>

(***************************************************************************)
(* User listing: every actor lists users with and without a role filter    *)
(* while the Admin changes the roles of users 2 and 3, switches them on    *)
(* and off and deletes user 3.                                             *)
(***************************************************************************)
RoleFilters == {Absent, "employee", "EMPLOYEE", " employee", "manager", "ADMIN", "boss"}

NextUsers ==
  \E a \in UserIds :
    \/ \E role \in RoleFilters : ListUsers(a, role)
    \/ \E id \in {2, 3}, role \in RoleValues : EditUser(a, id, role, Absent)
    \/ \E id \in {2, 3} : ToggleUser(a, id)
    \/ DeleteUser(a, 3)

SpecUsers == Init /\ [][NextUsers]_vars

\* C12: a user listing answered to a Manager holds only users whose role is
\* Employee; without a role filter it holds every stored Employee; with a
\* filter that names the role Admin or Manager it is answered 403 and
\* holds no user.
C12_ManagerListsOnlyEmployees ==
  [][(last'.op = "listUsers" /\ users[last'.actor].role = "manager") =>
       /\ \A u \in last'.seen : users[u].exists /\ users[u].role = "employee"
       /\ \A role \in RoleFilters :
            ListUsers(last'.actor, role) =>
              /\ role = Absent =>
                   /\ last'.code = 200
                   /\ last'.seen = {u \in UserIds : users[u].exists /\ users[u].role = "employee"}
              /\ role \in {"manager", "ADMIN"} => last'.code = 403 /\ last'.seen = {}]_vars

\* C12 witness: a Manager's listing without a filter has returned the one
\* stored Employee, who is switched off, and not the Admin or the Manager.
C12_Witness ==
  /\ last.op = "listUsers" /\ last.code = 200 /\ last.seen = {3}
  /\ last.actor = 2 /\ users[2].role = "manager"
  /\ users[3].role = "employee" /\ ~users[3].isActive
  /\ users[1].role = "admin"

(***************************************************************************)
(* routes/groups.js: restrictQueryByRole, GET /groups and GET /groups/:id  *)
(***************************************************************************)
\* The scoping filter of the groups router: every group for an Admin; the
\* groups created, led or joined for a Manager; the groups joined for any
\* other role.
restrictGroupQueryByRole(a) ==
  [all |-> ActorRole(a) = ROLES.ADMIN,
   createdBy |-> IF ActorRole(a) = ROLES.MANAGER THEN a ELSE NoId,
   lead |-> IF ActorRole(a) = ROLES.MANAGER THEN a ELSE NoId,
   members |-> IF ActorRole(a) # ROLES.ADMIN THEN a ELSE NoId]

\* A variant of GroupMatchesFilter without the clause of the creator; C13
\* fails of it.
GroupMatchesFilterWithoutCreator(f, g) ==
  \/ f.all
  \/ f.lead # NoId /\ g.lead = f.lead
  \/ f.members # NoId /\ f.members \in SeqRange(g.members)

\* Group.find(filter) / Group.findOne({...base, _id}) on one document.
GroupMatchesFilter(f, g) ==
  \/ f.all
  \/ f.createdBy # NoId /\ g.createdBy = f.createdBy
  \/ f.lead # NoId /\ g.lead = f.lead
  \/ f.members # NoId /\ f.members \in SeqRange(g.members)

\* The isActive filter of the listing: 'true' asks for the active groups,
\* any other value for the others.
GroupFind(f, isActive) ==
  {g \in GroupIds :
     /\ groups[g].doc = "live"
     /\ GroupMatchesFilter(f, groups[g])
     /\ isActive # Absent => groups[g].isActive = (isActive = "true")}

ListGroups(a, isActive) ==
  /\ authenticate(a)
  /\ Answer("listGroups", a, Reply(200, ""), GroupFind(restrictGroupQueryByRole(a), isActive))
  /\ UNCHANGED <<users, tasks, groups, ledger, counter, procs, now>>

GetGroupReply(a, id) ==
  IF id \in GroupFind(restrictGroupQueryByRole(a), Absent)
  THEN Reply(200, "") ELSE Reply(404, "Group not found")

GetGroup(a, id) ==
  /\ authenticate(a)
  /\ Answer("getGroup", a, GetGroupReply(a, id),
                  IF GetGroupReply(a, id).code = 200 THEN {id} ELSE {})
  /\ UNCHANGED <<users, tasks, groups, ledger, counter, procs, now>>

(***************************************************************************)
(* Group scoping: groups are created, given another lead or other members, *)
(* switched off and deleted while the Admin changes the roles of users 2   *)
(* and 3, and every actor lists the groups and gets the group by id.       *)
(***************************************************************************)
NextGroupScope ==
  \E a \in UserIds :
    \/ \E leadId \in {2, 3}, memberIds \in ScopeMemberLists : CreateGroup(a, TRUE, leadId, memberIds)
    \/ \E id \in GroupIds, leadId \in {2, 3} :
         UpdateGroup(a, id, FALSE, TRUE, leadId, FALSE, <<>>, Absent)
    \/ \E id \in GroupIds, memberIds \in ScopeMemberLists :
         UpdateGroup(a, id, FALSE, FALSE, NoId, TRUE, memberIds, Absent)
    \/ \E id \in GroupIds : UpdateGroup(a, id, FALSE, FALSE, NoId, FALSE, <<>>, "false")
    \/ \E id \in GroupIds : DeleteGroup(a, id)
    \/ \E id \in {2, 3}, role \in ScopeRoleInputs : EditUser(a, id, role, Absent)
    \/ \E isActive \in {Absent, "true"} : ListGroups(a, isActive)
    \/ \E id \in GroupIds : GetGroup(a, id)

SpecGroupScope == Init /\ [][NextGroupScope]_vars

\* C13: the groups GET /groups returns to an actor (with no isActive
\* filter), and the groups GET /groups/:id finds for the actor, are exactly
\* the existing groups that are: any group, for an Admin; created by the
\* actor, led by the actor or holding the actor as a member, for a Manager;
\* holding the actor as a member, for an Employee.  Get-by-id answers 404
\* for any other group.
C13_GroupScopeByRole ==
  /\ [][LET InScope(a, g) ==
              /\ groups[g].doc = "live"
              /\ \/ users[a].role = "admin"
                 \/ /\ users[a].role = "manager"
                    /\ \/ groups[g].createdBy = a
                       \/ groups[g].lead = a
                       \/ \E i \in 1..Len(groups[g].members) : groups[g].members[i] = a
                 \/ /\ users[a].role = "employee"
                    /\ \E i \in 1..Len(groups[g].members) : groups[g].members[i] = a
        IN  last'.op = "listGroups" =>
              \A isActive \in {Absent, "true"} :
                ListGroups(last'.actor, isActive) =>
                  /\ last'.code = 200
                  /\ last'.seen \subseteq {g \in GroupIds : InScope(last'.actor, g)}
                  /\ isActive = Absent =>
                       last'.seen = {g \in GroupIds : InScope(last'.actor, g)}]_vars
  /\ [][LET InScope(a, g) ==
              /\ groups[g].doc = "live"
              /\ \/ users[a].role = "admin"
                 \/ /\ users[a].role = "manager"
                    /\ \/ groups[g].createdBy = a
                       \/ groups[g].lead = a
                       \/ \E i \in 1..Len(groups[g].members) : groups[g].members[i] = a
                 \/ /\ users[a].role = "employee"
                    /\ \E i \in 1..Len(groups[g].members) : groups[g].members[i] = a
        IN  last'.op = "getGroup" =>
              \A id \in GroupIds :
                GetGroup(last'.actor, id) =>
                  IF InScope(last'.actor, id)
                  THEN last'.code = 200 /\ last'.seen = {id}
                  ELSE last'.code = 404 /\ last'.seen = {}]_vars

\* C13 witness: a Manager who created a group that another Manager leads,
\* and who is not among its members, is listed the group.
C13_Witness ==
  /\ last.op = "listGroups" /\ last.actor = 2 /\ users[2].role = "manager"
  /\ last.seen = {1}
  /\ groups[1].createdBy = 2 /\ groups[1].lead = 3
  /\ \A i \in 1..Len(groups[1].members) : groups[1].members[i] # 2

(***************************************************************************)
(* routes/tasks.js: POST /tasks/:id/comments                               *)
(***************************************************************************)
MaxComments == 2

\* String.prototype.trim on the comment texts of the model.
trim(s) == IF s = " " THEN "" ELSE IF s = " note " THEN "note" ELSE s

\* The handler calls the async restrictQueryByRole without await and spreads
\* the pending Promise into the filter: a Promise has no own enumerable
\* property, so `{ ...base, _id: id }` carries no scoping clause.
SpreadOfPromise == [all |-> TRUE, createdBy |-> NoId, user |-> NoId, groups |-> {}]

\* A variant of addComment that puts the new comment before the older ones;
\* C24 fails of it.
addCommentAtFront(t, userId, commentText) ==
  [t EXCEPT !.comments = <<[user |-> userId, comment |-> commentText]>> \o @]

\* Task.methods.addComment: push, then save.
addComment(t, userId, commentText) ==
  [t EXCEPT !.comments = Append(@, [user |-> userId, comment |-> commentText])]

AddCommentReply(a, id, comment) ==
  IF comment = Absent \/ trim(comment) = "" THEN Reply(400, "Comment is required")
  ELSE IF id \notin TaskFind(SpreadOfPromise) THEN Reply(404, "Task not found")
  ELSE Reply(200, "")

AddComment(a, id, comment) ==
  LET reply == AddCommentReply(a, id, comment)
  IN  /\ authenticate(a)
      /\ reply.code = 200 => Len(tasks[id].comments) < MaxComments
      /\ tasks' = IF reply.code = 200
                  THEN [tasks EXCEPT ![id] = addComment(@, a, trim(comment))]
                  ELSE tasks
      /\ Answer("addComment", a, reply, IF reply.code = 200 THEN {id} ELSE {})
      /\ UNCHANGED <<users, groups, ledger, now, counter, procs>>

(***************************************************************************)
(* Comments: tasks are created, assigned, unassigned and deleted, users 2  *)
(* and 3 change role, and every actor comments on the task and gets it.    *)
(***************************************************************************)
CommentInputs == {Absent, " ", "note", " note "}

NextComments ==
  \E a \in UserIds :
    \/ \E uid \in ScopeUserRefs : CreateTask(a, "A", Absent, uid, NoId, Absent, {}, NoAttachments)
    \/ \E id \in TaskIds, userId \in ScopeUserRefs : AssignTask(a, id, userId, NoId)
    \/ \E id \in TaskIds : UnassignTask(a, id)
    \/ \E id \in TaskIds : DeleteTask(a, id)
    \/ \E id \in {2, 3}, role \in ScopeRoleInputs : EditUser(a, id, role, Absent)
    \/ \E id \in TaskIds, comment \in CommentInputs : AddComment(a, id, comment)
    \/ \E id \in TaskIds : GetTask(a, id)

SpecComments == Init /\ [][NextComments]_vars

\* C14: a request to comment with a non-empty text appends the comment to
\* the task exactly when GET /tasks/:id would show the task to the actor;
\* for any other task it answers 404 and leaves the task's comments as they
\* were.
C14_CommentOnlyOnVisibleTask ==
  [][last'.op = "addComment" =>
       \A id \in TaskIds, comment \in {"note", " note "} :
         AddComment(last'.actor, id, comment) =>
           IF GetTaskReply(last'.actor, id).code = 200
           THEN /\ last'.code = 200
                /\ tasks'[id].comments =
                     Append(tasks[id].comments, [user |-> last'.actor, comment |-> "note"])
           ELSE /\ last'.code = 404
                /\ tasks' = tasks]_vars

(***************************************************************************)
(* Accounts.  User.create is not one step of the store: the handler reads  *)
(* (User.exists, User.findOne), the save hook draws the uid from the       *)
(* counter and hashes the password, and only then is the document          *)
(* inserted.  Other requests run between these awaits, so a creation is a  *)
(* process p with a position: idle -> presave -> insert -> idle.           *)
(***************************************************************************)
AdminExists == \E u \in UserIds : users[u].exists /\ users[u].role = ROLES.ADMIN

\* POST /auth/seed-admin up to User.create: the existence check.
SeedAdminBegin(p) ==
  /\ procs[p].pc = "idle"
  /\ IF AdminExists
     THEN /\ Answer("seedAdmin", NoId, Reply(403, "Admin already exists"), {})
          /\ UNCHANGED procs
     ELSE /\ procs' = [procs EXCEPT ![p] =
                         [pc |-> "presave", op |-> "seedAdmin", actor |-> NoId,
                          email |-> SeedAdminEmail, role |-> ROLES.ADMIN, uid |-> 0]]
          /\ UNCHANGED <<last, tokens>>
  /\ UNCHANGED <<users, tasks, groups, ledger, counter, now>>

\* POST /auth/register up to User.create: the role and the email check.
RegisterBeginReply(a, email, role) ==
  IF ~permit(a, {ROLES.ADMIN}) THEN Reply(403, "Forbidden")
  ELSE IF normalizeRole(role) \notin RoleValues THEN Reply(400, "Invalid role")
  ELSE IF UserFindOneByEmail(email) # NoId THEN Reply(409, "Email in use")
  ELSE Reply(0, "")

RegisterBegin(p, a, email, role) ==
  LET reply == RegisterBeginReply(a, email, role)
  IN  /\ authenticate(a)
      /\ procs[p].pc = "idle"
      /\ IF reply.code # 0
         THEN /\ Answer("register", a, reply, {})
              /\ UNCHANGED procs
         ELSE /\ procs' = [procs EXCEPT ![p] =
                             [pc |-> "presave", op |-> "register", actor |-> a,
                              email |-> email, role |-> normalizeRole(role), uid |-> 0]]
              /\ UNCHANGED <<last, tokens>>
      /\ UNCHANGED <<users, tasks, groups, ledger, counter, now>>

\* userSchema.pre('save') of a new document: the uid is drawn.
UserPreSave(p) ==
  /\ procs[p].pc = "presave"
  /\ CanDraw("user")
  /\ procs' = [procs EXCEPT ![p].uid = getNextSeq("user"), ![p].pc = "insert"]
  /\ counter' = Drawn("user")
  /\ UNCHANGED <<users, tasks, groups, ledger, now, last, tokens>>

\* The unique index on email: an insert or an update of document `self`
\* (NoId for an insert) is refused when another document holds the email.
EmailIndexAllows(self, email) ==
  \A u \in UserIds \ {self} : users[u].exists => users[u].email # email

\* The _id of the document the insert stores.
FreshUserId == CHOOSE u \in UserIds : ~users[u].exists /\ \A v \in UserIds : v < u => users[v].exists

CreatedReply(op) ==
  IF op = "seedAdmin" THEN Reply(201, "Seed admin created") ELSE Reply(201, "")

CreateErrorReply(op) ==
  IF op = "seedAdmin" THEN Reply(500, "Error seeding admin") ELSE Reply(500, "Register error")

\* The insert of User.create and the answer of the handler.
UserInsert(p) ==
  /\ procs[p].pc = "insert"
  /\ IF EmailIndexAllows(NoId, procs[p].email)
     THEN /\ \E u \in UserIds : ~users[u].exists
          /\ users' = [users EXCEPT ![FreshUserId] =
                         [role |-> procs[p].role, isActive |-> TRUE, exists |-> TRUE,
                          uid |-> procs[p].uid, email |-> procs[p].email,
                          password |-> Hash(IF procs[p].op = "seedAdmin"
                                            THEN SeedAdminPassword ELSE "Secret@1")]]
          /\ Answer(procs[p].op, procs[p].actor, CreatedReply(procs[p].op), {FreshUserId})
     ELSE /\ UNCHANGED users
          /\ Answer(procs[p].op, procs[p].actor, CreateErrorReply(procs[p].op), {})
  /\ procs' = [procs EXCEPT ![p] = IdleProc]
  /\ UNCHANGED <<tasks, groups, ledger, counter, now>>

\* PATCH /users/:id with a body of { email }: the unique index refuses an
\* email another document holds.
EditUserEmailReply(a, id, email) ==
  IF ~permit(a, {ROLES.ADMIN}) THEN Reply(403, "Forbidden")
  ELSE IF ~UserFindById(id).exists THEN Reply(404, "User not found")
  ELSE IF ~EmailIndexAllows(id, email) THEN Reply(500, "Edit user error")
  ELSE Reply(200, "")

EditUserEmail(a, id, email) ==
  LET reply == EditUserEmailReply(a, id, email)
  IN  /\ authenticate(a)
      /\ users' = IF reply.code = 200 THEN [users EXCEPT ![id].email = email] ELSE users
      /\ Answer("editUser", a, reply, {})
      /\ UNCHANGED <<tasks, groups, ledger, now, counter, procs>>

(***************************************************************************)
(* The accounts scenario starts from an empty store.  Two requests at a    *)
(* time seed the admin or register a user; an admin moves to another email *)
(* and deletes users.                                                      *)
(***************************************************************************)
InitAccounts ==
  /\ users = [u \in UserIds |-> NoUser]
  /\ tasks = [t \in TaskIds |-> NoTask]
  /\ groups = [g \in GroupIds |-> NoGroup]
  /\ ledger = [u \in UserIds |-> NoLedger]
  /\ counter = [n \in SeqNames |-> 0]
  /\ procs = [p \in Procs |-> IdleProc]
  /\ now = 0
  /\ last = Resp("init", NoId, Reply(0, ""), {})
  /\ tokens = [u \in UserIds |-> NoToken]

RegisterEmails == {"manager@example.com"}
RegisterRoles == {"MANAGER", "admin", "boss"}
OtherEmail == "root@example.com"

NextAccounts ==
  \/ \E p \in Procs :
       \/ SeedAdminBegin(p)
       \/ \E a \in UserIds, email \in RegisterEmails, role \in RegisterRoles :
            RegisterBegin(p, a, email, role)
       \/ UserPreSave(p)
       \/ UserInsert(p)
  \/ \E a \in UserIds :
       \/ EditUserEmail(a, a, OtherEmail)
       \/ \E id \in UserIds : DeleteUser(a, id)

SpecAccounts == InitAccounts /\ [][NextAccounts]_vars

\* C16: a seed-admin request whose existence check finds an Admin answers
\* 403 and stores nothing; and whenever a seed-admin request stores a user,
\* no Admin exists at that moment, so of the seed-admin requests that passed
\* the check together at most one stores a user.
C16_SeedAdminOnlyWithoutAdmin ==
  /\ [][\A p \in Procs :
          (SeedAdminBegin(p) /\ (\E u \in UserIds : users[u].exists /\ users[u].role = "admin")) =>
            /\ last'.code = 403
            /\ users' = users /\ procs' = procs]_vars
  /\ [][\A p \in Procs :
          (procs[p].op = "seedAdmin" /\ UserInsert(p) /\ users' # users) =>
            ~ \E u \in UserIds : users[u].exists /\ users[u].role = "admin"]_vars

(***************************************************************************)
(* The sequences scenario starts from an empty store too.  Two requests at *)
(* a time seed the admin or register a manager, so that uids are drawn in  *)
(* either order and an insert fails after its draw; a task and a group are *)
(* created and deleted.                                                    *)
(***************************************************************************)
NextSequences ==
  \/ \E p \in Procs :
       \/ SeedAdminBegin(p)
       \/ \E a \in UserIds : RegisterBegin(p, a, "manager@example.com", "MANAGER")
       \/ UserPreSave(p)
       \/ UserInsert(p)
  \/ \E a \in UserIds :
       \/ CreateTask(a, "A", Absent, NoId, NoId, Absent, {}, NoAttachments)
       \/ \E id \in TaskIds : DeleteTask(a, id)
       \/ \E leadId \in UserIds : CreateGroup(a, TRUE, leadId, <<>>)
       \/ \E id \in GroupIds : DeleteGroup(a, id)

SpecSequences == InitAccounts /\ [][NextSequences]_vars

UserSchemaPaths ==
  {"_id", "uid", "name", "email", "password", "role", "isActive", "createdAt", "updatedAt"}

UserToClientKeys == {"id", "uid", "name", "email", "role", "isActive", "createdAt"}

Populated(select) == IF select = {} THEN UserSchemaPaths ELSE select \cup {"_id"}

\* The keys of the user objects in the body of the response r.
ResponseUserFields(r) ==
  IF r.code \notin {200, 201} THEN {}
  ELSE IF r.op \in {"login", "register", "listUsers", "editUser"} THEN UserToClientKeys
  ELSE IF r.op = "seedAdmin" THEN {"email"}
  ELSE IF r.op = "toggleUser" THEN {"id", "isActive"}
  ELSE IF r.op \in {"createTask", "listTasks", "getTask", "updateTask", "addComment",
                    "updateTaskStatus", "assignTask", "unassignTask"}
  THEN Populated({"name", "email"}) \cup Populated({"name", "email", "role"})
  ELSE IF r.op \in {"createGroup", "listGroups", "getGroup", "updateGroup", "addGroupTask"}
  THEN Populated({})
  ELSE {}

\* C17: no response shows the password of a user: the user objects in the
\* body of every response, returned directly or embedded in a task or in a
\* group, have no password key.
C17_NoResponseShowsPassword == "password" \notin ResponseUserFields(last)

(***************************************************************************)
(* Existence of a task: a task is created for nobody or for the Employee,  *)
(* and every actor sends each request that names a task by id.             *)
(***************************************************************************)
NextExistence ==
  \E a \in UserIds :
    \/ \E uid \in {NoId, 3} : CreateTask(a, "A", Absent, uid, NoId, Absent, {}, NoAttachments)
    \/ \E id \in TaskIds : GetTask(a, id)
    \/ \E id \in TaskIds : AddComment(a, id, "note")
    \/ \E id \in TaskIds : UpdateTask(a, id, "B", Absent, FALSE, NoId, NoAttachments)
    \/ \E id \in TaskIds : UpdateTaskStatus(a, id, "Completed", "note")
    \/ \E id \in TaskIds : AssignTask(a, id, 3, NoId)
    \/ \E id \in TaskIds : UnassignTask(a, id)
    \/ \E id \in TaskIds : ReopenTask(a, id)

SpecExistence == Init /\ [][NextExistence]_vars

\* C18: when an actor who is not an Admin names, in a get, comment, field
\* update, status update, assign, unassign or reopen request, a task that
\* exists but that GET /tasks would not list for the actor, the response is
\* the response the same request gets for an id that names no task, and the
\* task is left as it was.
C18_HiddenTaskAnswersAsMissing ==
  [][LET InGroupOf(a, t, asLead) ==
            \E g \in GroupIds :
              /\ groups[g].doc = "live"
              /\ tasks[t].assignedTo.group = g
              /\ \/ \E i \in 1..Len(groups[g].members) : groups[g].members[i] = a
                 \/ asLead /\ groups[g].lead = a
          Hidden(a, t) ==
            /\ tasks[t].doc = "live"
            /\ users[a].role # "admin"
            /\ ~ /\ users[a].role = "manager"
                 /\ \/ tasks[t].createdBy = a
                    \/ tasks[t].assignedTo.user = a
                    \/ InGroupOf(a, t, TRUE)
            /\ ~ /\ users[a].role = "employee"
                 /\ \/ tasks[t].assignedTo.user = a
                    \/ InGroupOf(a, t, FALSE)
          Missing(reply) ==
            /\ last'.code = reply.code /\ last'.message = reply.message /\ last'.seen = {}
            /\ tasks' = tasks
     IN  \A id \in TaskIds :
           Hidden(last'.actor, id) =>
             /\ (last'.op = "getTask" /\ GetTask(last'.actor, id)) =>
                  Missing(GetTaskReply(last'.actor, GhostId))
             /\ (last'.op = "addComment" /\ AddComment(last'.actor, id, "note")) =>
                  Missing(AddCommentReply(last'.actor, GhostId, "note"))
             /\ (last'.op = "updateTask" /\ UpdateTask(last'.actor, id, "B", Absent, FALSE, NoId, NoAttachments)) =>
                  Missing(UpdateTaskReply(last'.actor, GhostId, "B", Absent, FALSE, NoId, NoAttachments))
             /\ (last'.op = "updateTaskStatus"
                 /\ UpdateTaskStatus(last'.actor, id, "Completed", "note")) =>
                  Missing(UpdateTaskStatusReply(last'.actor, GhostId, "Completed"))
             /\ (last'.op = "assignTask" /\ AssignTask(last'.actor, id, 3, NoId)) =>
                  Missing(AssignTaskReply(last'.actor, GhostId, 3, NoId))
             /\ (last'.op = "unassignTask" /\ UnassignTask(last'.actor, id)) =>
                  Missing(UnassignTaskReply(last'.actor, GhostId))
             /\ (last'.op = "reopenTask" /\ ReopenTask(last'.actor, id)) =>
                  Missing(ReopenTaskReply(last'.actor, GhostId))]_vars

(***************************************************************************)
(* What a response shows of a task: the handlers answer with shape(task),   *)
(* which is task.toClient().                                               *)
(***************************************************************************)
TaskToClientKeys ==
  {"id", "_id", "title", "description", "priority", "due", "attachments", "createdBy",
   "comments", "assignedTo", "status", "statusHistory", "createdAt", "updatedAt"}

\* The keys of the task object in the body of the response r.
ResponseTaskFields(r) ==
  IF r.code \in {200, 201}
     /\ r.op \in {"createTask", "getTask", "updateTask", "addComment", "updateTaskStatus",
                  "assignTask", "unassignTask"}
  THEN TaskToClientKeys
  ELSE {}

(***************************************************************************)
(* Uploads: tasks are created with and without a title, with a valid and   *)
(* an invalid priority and with every choice of uploaded parts, and are    *)
(* deleted, while the Admin changes the role of users 2 and 3 and switches *)
(* them off and on.                                                        *)
(***************************************************************************)
UploadParts == {"file", "voice"}

NextUploads ==
  \E a \in UserIds :
    \/ \E title \in {"A", Absent}, priority \in {"Medium", "Urgent"}, files \in SUBSET UploadParts :
         CreateTask(a, title, priority, NoId, NoId, Absent, files, NoAttachments)
    \/ \E id \in TaskIds : GetTask(a, id)
    \/ \E id \in TaskIds : DeleteTask(a, id)
    \/ \E id \in {2, 3}, role \in ScopeRoleInputs : EditUser(a, id, role, Absent)
    \/ \E id \in {2, 3} : ToggleUser(a, id)

SpecUploads == Init /\ [][NextUploads]_vars

\* C19: POST /tasks by an Admin or a Manager with a title and description, a
\* valid priority and uploaded file and voice parts answers 201, stores
\* exactly one new task, with that title, and the task in the body has the
\* keys title, description, file and voice.
C19_UploadIsCreatedAndShown ==
  [][(/\ last'.op = "createTask"
      /\ users[last'.actor].role \in {"admin", "manager"}
      /\ CreateTask(last'.actor, "A", "Medium", NoId, NoId, Absent, {"file", "voice"}, NoAttachments)) =>
       /\ last'.code = 201
       /\ \E t \in TaskIds :
            /\ tasks[t].doc = "none" /\ tasks'[t].doc = "live" /\ tasks'[t].title = "A"
            /\ \A s \in TaskIds \ {t} : tasks'[s] = tasks[s]
       /\ {"title", "description", "file", "voice"} \subseteq ResponseTaskFields(last')]_vars

(***************************************************************************)
(* The memberIds of a group request body: a JSON array of ids, or one id   *)
(* sent as a bare string.  POST /groups wraps a bare string into           *)
(* memberIdList, but its validation loop and PATCH /groups/:id read        *)
(* memberIds itself and only when Array.isArray(memberIds).                *)
(***************************************************************************)
MemberIdsBody(isArray, ids) == [isArray |-> isArray, ids |-> ids]

\* The ids the handlers validate and store.
ArrayOf(body) == IF body.isArray THEN body.ids ELSE <<>>

CreateGroupRequest(a, hasText, leadId, body) ==
  CreateGroup(a, hasText, leadId, ArrayOf(body))

UpdateGroupRequest(a, id, hasText, hasLead, leadId, body, isActive) ==
  UpdateGroup(a, id, hasText, hasLead, leadId, body.isArray, ArrayOf(body), isActive)

(***************************************************************************)
(* Group input: groups are created and updated with every user as lead and *)
(* with no member, the Admin or the Employee as member in either form of   *)
(* memberIds, while the Admin changes roles and switches users off and on. *)
(***************************************************************************)
MemberBodies ==
  {MemberIdsBody(TRUE, <<>>), MemberIdsBody(TRUE, <<1>>), MemberIdsBody(TRUE, <<3>>),
   MemberIdsBody(FALSE, <<1>>), MemberIdsBody(FALSE, <<3>>)}

NextGroupInput ==
  \E a \in UserIds :
    \/ \E leadId \in UserIds, body \in MemberBodies : CreateGroupRequest(a, TRUE, leadId, body)
    \/ \E id \in GroupIds, hasLead \in BOOLEAN, leadId \in UserIds, body \in MemberBodies :
         UpdateGroupRequest(a, id, TRUE, hasLead, leadId, body, Absent)
    \/ \E id \in {2, 3}, role \in ScopeRoleInputs : EditUser(a, id, role, Absent)
    \/ \E id \in {2, 3} : ToggleUser(a, id)
    \/ \E id \in GroupIds : DeleteGroup(a, id)

SpecGroupInput == Init /\ [][NextGroupInput]_vars

\* C20: a group creation by an Admin or Manager, and an update of an
\* existing group by an actor allowed to modify it, answers 400 and leaves
\* the groups as they were whenever the lead it supplies is not an existing
\* active Manager or a member it supplies is not an existing active Manager
\* or Employee.
C20_InvalidLeadOrMemberIsRejected ==
  [][LET Active(u) == u \in UserIds /\ users[u].exists /\ users[u].isActive
         BadLead(leadId) == ~(Active(leadId) /\ users[leadId].role = "manager")
         BadMember(body) ==
           \E i \in 1..Len(body.ids) :
             ~(Active(body.ids[i]) /\ users[body.ids[i]].role \in {"manager", "employee"})
         Rejected == last'.code = 400 /\ groups' = groups
     IN  /\ \A leadId \in UserIds, body \in MemberBodies :
              (/\ last'.op = "createGroup"
               /\ users[last'.actor].role \in {"admin", "manager"}
               /\ CreateGroupRequest(last'.actor, TRUE, leadId, body)
               /\ (BadLead(leadId) \/ BadMember(body))) => Rejected
         /\ \A id \in GroupIds, hasLead \in BOOLEAN, leadId \in UserIds, body \in MemberBodies :
              (/\ last'.op = "updateGroup"
               /\ groups[id].doc = "live"
               /\ \/ users[last'.actor].role = "admin"
                  \/ groups[id].createdBy = last'.actor
                  \/ groups[id].lead = last'.actor
               /\ UpdateGroupRequest(last'.actor, id, TRUE, hasLead, leadId, body, Absent)
               /\ ((hasLead /\ BadLead(leadId)) \/ BadMember(body))) => Rejected]_vars


(***************************************************************************)
(* The attachments of a task: POST /tasks and PATCH /tasks/:id.            *)
(***************************************************************************)
\* The attachments arrays a request body carries: none, an empty one, one at
\* the cap and one above it.
AttachmentBodies ==
  {NoAttachments, SentAttachments(0), SentAttachments(AttachmentCap),
   SentAttachments(AttachmentCap + 1)}

NextAttachments ==
  \E a \in UserIds :
    \/ \E uid \in {NoId, 3}, att \in AttachmentBodies :
         CreateTask(a, "A", Absent, uid, NoId, Absent, {}, att)
    \/ \E id \in TaskIds, title \in {Absent, "B"}, att \in AttachmentBodies :
         UpdateTask(a, id, title, Absent, FALSE, NoId, att)
    \/ \E id \in TaskIds : GetTask(a, id)
    \/ \E id \in TaskIds : DeleteTask(a, id)

SpecAttachments == Init /\ [][NextAttachments]_vars

\* C21: in every reachable state every task has at most 10 attachments,
\* whatever task creations and field updates (with an attachments list of any
\* length) came before.
C21_AtMostTenAttachments ==
  \A t \in TaskIds : tasks[t].doc = "live" => Len(tasks[t].attachments) <= 10

\* C22: a reopen request changes a task only when the actor is an Admin or
\* the task's creator; from any other authenticated actor it is rejected and
\* the task (its status and its history) is left as it was.
C22_ReopenOnlyByAdminOrCreator ==
  [][last'.op = "reopenTask" =>
       \A id \in TaskIds :
         ( /\ ReopenTask(last'.actor, id)
           /\ tasks[id].doc = "live"
           /\ users[last'.actor].role # ROLES.ADMIN
           /\ tasks[id].createdBy # last'.actor ) =>
             /\ last'.code # 200
             /\ tasks'[id] = tasks[id]]_vars

\* C23: every operation that changes the live status of a task appends to
\* its statusHistory the status that was live immediately before, and no
\* operation appends a history entry without changing the live status; so
\* the history followed by the live status is the sequence of successive,
\* distinct live statuses of the task.
C23_HistoryIsTheSuccessiveStatuses ==
  [][\A t \in TaskIds :
       (tasks[t].doc = "live" /\ tasks'[t].doc = "live") =>
         IF tasks'[t].status.status # tasks[t].status.status
         THEN /\ Len(tasks'[t].statusHistory) = Len(tasks[t].statusHistory) + 1
              /\ SubSeq(tasks'[t].statusHistory, 1, Len(tasks[t].statusHistory))
                   = tasks[t].statusHistory
              /\ tasks'[t].statusHistory[Len(tasks'[t].statusHistory)].status
                   = tasks[t].status.status
         ELSE tasks'[t].statusHistory = tasks[t].statusHistory]_vars

(***************************************************************************)
(* The two logs of a task, comments and statusHistory, under every         *)
(* operation that saves a task or a ledger, requested by the Admin and by  *)
(* the Employee.                                                           *)
(***************************************************************************)
LogActors == {1, 3}

NextLogs ==
  \E a \in LogActors :
    \/ CreateTask(a, "A", Absent, 3, NoId, Absent, {}, NoAttachments)
    \/ \E id \in TaskIds : UpdateTask(a, id, "B", Absent, FALSE, NoId, NoAttachments)
    \/ \E id \in TaskIds : UpdateTaskStatus(a, id, "Completed", "note")
    \/ \E id \in TaskIds : ReopenTask(a, id)
    \/ \E id \in TaskIds : AssignTask(a, id, 3, NoId)
    \/ \E id \in TaskIds : UnassignTask(a, id)
    \/ \E id \in TaskIds : AddComment(a, id, "note")
    \/ \E taskId \in TaskIds : AssignUserTask(a, 3, taskId, "Todo")
    \/ \E taskId \in TaskIds : UpdateUserTask(a, 3, taskId, "In Progress")
    \/ \E taskId \in TaskIds : RemoveUserTask(a, 3, taskId)

SpecLogs == Init /\ [][NextLogs]_vars

NextGroupUsers ==
  \E a \in UserIds :
    \/ \E memberIds \in {<<>>, <<3>>} : CreateGroup(a, TRUE, 2, memberIds)
    \/ \E id \in GroupIds : GetGroup(a, id)
    \/ \E id \in GroupIds : DeleteGroup(a, id)
    \/ \E id \in {2, 3} : ToggleUser(a, id)
    \/ \E id \in {2, 3}, role \in {Absent, ROLES.EMPLOYEE}, isActive \in {Absent, "false"} :
         EditUser(a, id, role, isActive)
    \/ \E id \in {2, 3} : DeleteUser(a, id)

SpecGroupUsers == Init /\ [][NextGroupUsers]_vars

\* C25: in every reachable state the lead of each group is an existing,
\* active user whose role is Manager and each member is an existing, active
\* user whose role is Manager or Employee, also after users are toggled,
\* edited or deleted.
C25_GroupRefersToActiveUsers ==
  \A g \in GroupIds :
    groups[g].doc = "live" =>
      /\ groups[g].lead \in UserIds
      /\ users[groups[g].lead].exists
      /\ users[groups[g].lead].isActive
      /\ normalizeRole(users[groups[g].lead].role) = ROLES.MANAGER
      /\ \A i \in 1..Len(groups[g].members) :
           /\ groups[g].members[i] \in UserIds
           /\ users[groups[g].members[i]].exists
           /\ users[groups[g].members[i]].isActive
           /\ normalizeRole(users[groups[g].members[i]].role) \in {ROLES.MANAGER, ROLES.EMPLOYEE}

\* C26: after every /user-tasks write the ledger and the Task record agree:
\* a successful assign leaves the task in the user's ledger exactly once and
\* Task.assignedTo.user equal to the user; a successful remove leaves the
\* task absent from the ledger and not assigned to the user; a request
\* answered with an error leaves the ledger and the tasks as they were.
C26_LedgerAndTaskAgree ==
  [][\A userId \in UserIds, taskId \in TaskIds :
       /\ (last'.op = "assignUserTask" /\ AssignUserTask(last'.actor, userId, taskId, "Todo")) =>
            IF last'.code < 400
            THEN /\ Cardinality({i \in 1..Len(ledger'[userId].assignedTasks) :
                                   ledger'[userId].assignedTasks[i].taskId = taskId}) = 1
                 /\ tasks'[taskId].assignedTo.user = userId
            ELSE ledger' = ledger /\ tasks' = tasks
       /\ (last'.op = "removeUserTask" /\ RemoveUserTask(last'.actor, userId, taskId)) =>
            IF last'.code < 400
            THEN /\ \A i \in 1..Len(ledger'[userId].assignedTasks) :
                      ledger'[userId].assignedTasks[i].taskId # taskId
                 /\ tasks'[taskId].assignedTo.user # userId
            ELSE ledger' = ledger /\ tasks' = tasks]_vars

(***************************************************************************)
(* Tokens: the Admin changes the role of users 2 and 3 and switches them   *)
(* off and on; users log in again or go on with the token they hold, and   *)
(* ask for operations that are open to some roles only.                    *)
(***************************************************************************)
TokenLogins == {"manager@example.com", "employee@example.com"}

NextTokens ==
  \E a \in UserIds :
    \/ \E op \in {"createGroup", "createTask", "toggleUser"} : Unauthenticated(op, a)
    \/ \E email \in TokenLogins : Login(a, email, "Secret@1")
    \/ \E id \in {2, 3}, role \in {ROLES.ADMIN, ROLES.MANAGER, ROLES.EMPLOYEE} :
         EditUser(a, id, role, Absent)
    \/ \E id \in {2, 3} : ToggleUser(a, id)
    \/ CreateGroup(a, TRUE, a, <<>>)
    \/ \E id \in GroupIds : DeleteGroup(a, id)
    \/ CreateTask(a, Absent, Absent, NoId, NoId, Absent, {}, NoAttachments)

SpecTokens == Init /\ [][NextTokens]_vars

\* C27: a request is authorized under the role and the active flag stored
\* for the user when it is made, whatever role the token carried when it was
\* issued: while the user is inactive it is answered 401, while the user is
\* active it is not, and an operation open to some roles only is refused
\* with 403 exactly when the stored role is not one of them.
C27_AuthorizationUsesStoredRole ==
  [][(last'.op \in {"createGroup", "createTask", "toggleUser"} /\ last'.actor \in UserIds) =>
       LET stored == users[last'.actor]
           open == IF last'.op = "toggleUser" THEN {ROLES.ADMIN}
                   ELSE {ROLES.ADMIN, ROLES.MANAGER}
       IN  /\ last'.code = 401 <=> ~(stored.exists /\ stored.isActive)
           /\ (stored.exists /\ stored.isActive) =>
                (last'.code = 403 <=> stored.role \notin open)]_vars

\* C27 witness: a user who holds a token issued to an Employee and has been
\* made a Manager since has created a group with that token.
C27_Witness ==
  \E a \in UserIds :
    /\ tokens[a] = ROLES.EMPLOYEE
    /\ users[a].role = ROLES.MANAGER /\ users[a].isActive
    /\ last.op = "createGroup" /\ last.actor = a /\ last.code = 201

(***************************************************************************)
(* routes/users.js: PATCH /users/:id/password, behind authenticate alone.  *)
(***************************************************************************)
\* password.length < 6, tabulated for the passwords the model sends.
TooShort(password) == password \in {"abc"}

ChangePasswordReply(a, id, password) ==
  IF password = Absent \/ TooShort(password)
  THEN Reply(400, "Password must be at least 6 characters")
  ELSE IF ~isValidObjectId(id) THEN Reply(500, "Update password error")
  ELSE IF ~UserFindById(id).exists THEN Reply(404, "User not found")
  ELSE Reply(200, "Password updated")

\* user.password = password; user.save(): the save hook hashes the password.
ChangePassword(a, id, password) ==
  LET reply == ChangePasswordReply(a, id, password)
  IN  /\ authenticate(a)
      /\ users' = IF reply.code = 200
                  THEN [users EXCEPT ![id].password = Hash(password)]
                  ELSE users
      /\ Answer("changePassword", a, reply, {})
      /\ UNCHANGED <<tasks, groups, ledger, now, counter, procs>>

PasswordInputs == {Absent, "abc", "Changed@1", "Changed@2"}

NextPasswords ==
  \E a \in UserIds :
    \/ \E id \in UserIds \cup {GhostId, BadId}, password \in PasswordInputs :
         ChangePassword(a, id, password)
    \/ \E email \in {SeedAdminEmail, "employee@example.com"},
          password \in {SeedAdminPassword, "Secret@1", "Changed@1"} :
         Login(a, email, password)
    \/ \E id \in {2, 3} : ToggleUser(a, id)

SpecPasswords == Init /\ [][NextPasswords]_vars

\* C28: the stored password of a user is changed only by a request whose
\* actor is that user or an Admin; the request of any other actor is
\* rejected and the password of the user it names is left as it was.
C28_PasswordChangedBySelfOrAdmin ==
  [][last'.op = "changePassword" =>
       \A id \in UserIds, password \in PasswordInputs :
         ( /\ ChangePassword(last'.actor, id, password)
           /\ last'.actor # id
           /\ users[last'.actor].role # ROLES.ADMIN ) =>
             /\ last'.code # 200
             /\ users'[id].password = users[id].password]_vars

\* C29: the users an Employee obtains from the user listing, with or without
\* a role filter, are among those a Manager can obtain, the stored
\* Employees: the listing answered to an Employee holds no Admin and no
\* Manager.
C29_EmployeeListsNoMoreThanManager ==
  [][(last'.op = "listUsers" /\ users[last'.actor].role = ROLES.EMPLOYEE) =>
       last'.seen \subseteq {u \in UserIds : users[u].exists /\ users[u].role = ROLES.EMPLOYEE}]_vars

(***************************************************************************)
(* PATCH /tasks/:id with fields and an assigneeId in one request, while    *)
(* the Employee is switched off and on.                                    *)
(***************************************************************************)
AssigneeInputs == {NoId, 3, GhostId, BadId}

NextFieldUpdates ==
  \E a \in UserIds :
    \/ CreateTask(a, "A", Absent, NoId, NoId, Absent, {}, NoAttachments)
    \/ \E id \in TaskIds, title \in {Absent, "B"}, hasAssignee \in BOOLEAN,
          att \in {NoAttachments, SentAttachments(1)} :
         \E assigneeId \in IF hasAssignee THEN AssigneeInputs ELSE {NoId} :
           UpdateTask(a, id, title, Absent, hasAssignee, assigneeId, att)
    \/ \E id \in TaskIds : GetTask(a, id)
    \/ ToggleUser(a, 3)

SpecFieldUpdates == Init /\ [][NextFieldUpdates]_vars

\* C30: a field update answered 403, or answered 400 because its assigneeId
\* is malformed or names a user who is not stored or not active, leaves the
\* task exactly as it was: none of the values sent with it is persisted.
C30_FailedUpdateChangesNothing ==
  [][( /\ last'.op = "updateTask"
       /\ \/ last'.code = 403
          \/ last'.code = 400 /\ last'.message \in {"Invalid user ID", "Invalid or inactive user"} )
       => tasks' = tasks]_vars
====
